---- MODULE Spec2Model ----
(***************************************************************************)
(* Task lifecycle and persistence of the copernicus backend:               *)
(* TaskStore (services/task_store.py), PersistenceService                  *)
(* (services/persistence.py), the transcript router (routers/task.py) and  *)
(* the startup sequence (main.py).                                         *)
(*                                                                         *)
(* The server is one asyncio event loop.  Every action below is the code   *)
(* that runs between two suspension points of one coroutine, or one whole  *)
(* synchronous handler; the states of the model are exactly the instants   *)
(* at which another coroutine (a polling get, another handler, another     *)
(* worker) can observe the store.                                          *)
(***************************************************************************)
EXTENDS Integers, Sequences, FiniteSets, TLC

(* ---------------------------- bounds ----------------------------------- *)
MaxTasks == 2        \* task ids ever issued by uuid4 (over all process lives)
MaxWorkers == 2      \* worker coroutines alive at the same time
MaxChunks == 2       \* total reported by a progress callback

Ids == 1..MaxTasks
Hashes == {"sha_a"}             \* SHA-256 values of the uploads
Contents == {"x"}               \* what a run produces from its input and hotwords

(* ---------------------------- values ----------------------------------- *)
None == 0                       \* Python None for ids
Absent == ""                    \* Python None for results; a file that does not exist
NoError == "None"               \* Python None for TaskInfo.error
Messages == {"boom"}            \* str(e) of a raised exception

\* schemas/task.py TaskStatus, in declaration order
TaskStatus ==
    << "pending", "processing_asr", "extracting_frames", "scanning_visual",
       "correcting", "evaluating", "auditing", "completed", "failed" >>

StatusRank(s) == CHOOSE i \in 1..Len(TaskStatus) : TaskStatus[i] = s

Terminal(s) == s \in {"completed", "failed"}

Max(a, b) == IF a >= b THEN a ELSE b

\* Python round() on an exact ratio n/d: round half to even
RoundHalfEven(n, d) ==
    LET q == n \div d
        r == n % d
    IN  IF 2 * r < d THEN q
        ELSE IF 2 * r > d THEN q + 1
        ELSE IF q % 2 = 0 THEN q ELSE q + 1

\* TaskInfo.__init__
TaskInfo(eval_only, parent) ==
    [ status |-> "pending", current_chunk |-> 0, total_chunks |-> 0,
      result |-> Absent, error |-> NoError, eval_only |-> eval_only,
      parent_task_id |-> parent ]

\* TaskInfo.progress: percent, in tenths of a percent (round(percent, 1) * 10)
progress(t) ==
    IF t.status = "pending" THEN 0
    ELSE IF t.status = "processing_asr" THEN 50
    ELSE IF t.status = "correcting" /\ t.total_chunks > 0
        THEN RoundHalfEven(50 * t.total_chunks + t.current_chunk * 850, t.total_chunks)
    ELSE IF t.status = "auditing"
        THEN IF t.total_chunks > 0
             THEN RoundHalfEven(t.current_chunk * 1000, t.total_chunks)
             ELSE 0
    ELSE IF t.status = "evaluating"
        THEN IF t.eval_only
             THEN IF t.total_chunks > 0
                  THEN RoundHalfEven(t.current_chunk * 1000, t.total_chunks)
                  ELSE 0
             ELSE IF t.total_chunks > 0
                  THEN RoundHalfEven(900 * t.total_chunks + t.current_chunk * 100, t.total_chunks)
                  ELSE 900
    ELSE IF t.status = "completed" THEN 1000
    ELSE RoundHalfEven(50 * Max(t.total_chunks, 1) + t.current_chunk * 850,
                       Max(t.total_chunks, 1))

\* an empty task directory slot of the uploads dir
NoDir ==
    [ dir |-> FALSE, meta |-> FALSE, media |-> "none", transcript |-> Absent,
      evaluation |-> Absent, compliance |-> Absent ]

(* ---------------------------- state ------------------------------------ *)
VARIABLES
    phase,            \* "starting": TaskStore built, restore_from_disk not yet run
    nextId,           \* the next id uuid4 hands out (ids are never reused)
    tasks,            \* TaskStore._tasks: id -> TaskInfo
    hash_index,       \* TaskStore._hash_index: hash -> id (None: no entry)
    workers,          \* the live worker coroutines, in order of creation
    disk,             \* uploads_dir: id -> files of the task directory
    hash_index_file,  \* uploads_dir/hash_index.json
    response,         \* what the handler that ran in the last step returned
                      \* (NoResponse after a step that is no handler)
    mm_lock,          \* ModelManager._lock: the caller holding it (None: free)
    mm_loaded,        \* ModelManager._loaded: the model types in the dict
    mm_callers,       \* the coroutines calling the ModelManager
    semaphore,        \* OllamaClient._semaphore: the permits left
    chats,            \* the coroutines calling OllamaClient.chat
    asr_lock,         \* ASRTranscribeStage._lock: the run holding it (None: free)
    runs,             \* the transcript pipeline runs (process_transcript calls)
    fan,              \* one correct_transcript / audit call and its batches
    now,              \* seconds since the process started
    guards,            \* the workers run under the timeout wrapper
    registry,         \* the task dict in insertion order (id, terminal or not)
    on_disk,          \* the ids whose task directory is on disk
    submitted,        \* the submissions made so far
    store,            \* the files of a task directory: path -> what is there
    dir_made,         \* the task directory exists
    io,               \* the write in progress
    answer,           \* what the last read operation returned
    reply,            \* the request handled in the last step and its answer
    all_violations,   \* what the map step of audit gathered
    audit_report,     \* the violations audit (or a filter) returned
    audit_pc,         \* where the audit call is
    corr_entries,     \* the entries correct_transcript was called with
    batches,          \* the phase-4 batches
    batch_results,    \* the results of the batches answered so far
    merged,           \* the map correct_transcript returns
    corr_pc           \* where the call is

vars == << phase, nextId, tasks, hash_index, workers, disk, hash_index_file,
           response >>

\* the state of the three services that are modelled on their own
mm_vars == << mm_lock, mm_loaded, mm_callers >>
llm_vars == << semaphore, chats >>
pipe_vars == << asr_lock, runs >>
fan_vars == << fan >>
timeout_vars == << now, guards >>
evict_vars == << registry, on_disk, submitted >>
files_vars == << store, dir_made, io, answer >>
http_vars == << reply >>
audit_vars == << all_violations, audit_report, audit_pc >>
corr_vars == << corr_entries, batches, batch_results, merged, corr_pc >>
aux_vars == << fan_vars, timeout_vars, evict_vars, files_vars, http_vars, audit_vars, corr_vars >>
services == << mm_vars, llm_vars, pipe_vars, aux_vars >>

NoResponse == [op |-> "none", id |-> None, existing |-> FALSE, code |-> 0]

\* TaskSubmitResponse(task_id, existing) with the HTTP status code
Response(op, id, existing, code) ==
    [op |-> op, id |-> id, existing |-> existing, code |-> code]

\* TaskStore.__init__ on an empty uploads directory
Init ==
    /\ phase = "starting"
    /\ nextId = 1
    /\ tasks = << >>
    /\ hash_index = [h \in Hashes |-> None]
    /\ workers = << >>
    /\ disk = [i \in Ids |-> NoDir]
    /\ hash_index_file = [h \in Hashes |-> None]
    /\ response = NoResponse

(* ---------------------------- helpers ---------------------------------- *)
\* TaskStore.get
get(id) == IF id \in DOMAIN tasks THEN tasks[id] ELSE None

\* PersistenceService.has_file(task_id, "transcript.json")
has_file_meta(d, id) == d[id].meta

has_file(d, id) == d[id].transcript # Absent

\* PersistenceService.find_audio: the audio.* file of the task directory
find_audio(d, id) == IF d[id].dir /\ d[id].media = "audio" THEN "audio" ELSE "none"

\* PersistenceService.find_video
find_video(d, id) == IF d[id].dir /\ d[id].media = "video" THEN "video" ELSE "none"

\* TaskStore.lookup_by_hash: the id returned (None when unknown or stale)
lookup_by_hash_always_stale(h) == None

lookup_by_hash(h) ==
    LET task_id == hash_index[h]
    IN  IF task_id = None THEN None
        ELSE IF has_file(disk, task_id) THEN task_id
        ELSE None

\* TaskStore.lookup_by_hash: the index it leaves behind (a stale entry is dropped)
IndexAfterLookup(h) ==
    IF hash_index[h] # None /\ ~has_file(disk, hash_index[h])
    THEN [hash_index EXCEPT ![h] = None]
    ELSE hash_index

\* TaskStore._register_hash
register_hash(index, h, id) == [index EXCEPT ![h] = id]

\* asyncio.create_task(self._run_xxx(task_id, ...))
Worker(id, kind, src) ==
    [pc |-> "created", tid |-> id, kind |-> kind, src |-> src, done |-> 0, total |-> 0]

ActiveWorkers(id) == {w \in DOMAIN workers : workers[w].tid = id}

(* ---------------------------- persistence ------------------------------ *)
\* PersistenceService.save_audio / save_video: task_dir() makes the directory,
\* write_bytes stores the upload (ok = FALSE: the write raises OSError)
save_media(d, id, kind, ok) ==
    [d EXCEPT ![id].dir = TRUE, ![id].media = IF ok THEN kind ELSE @]

\* PersistenceService.save_meta
save_meta(d, id, ok) ==
    [d EXCEPT ![id].dir = TRUE, ![id].meta = IF ok THEN TRUE ELSE @]

\* PersistenceService.save_json: atomic write of one result file
\* (ok = FALSE: _atomic_write raises and leaves the destination as it was)
save_json(d, id, filename, content, ok) ==
    IF filename = "transcript.json"
    THEN [d EXCEPT ![id].dir = TRUE, ![id].transcript = IF ok THEN content ELSE @]
    ELSE IF filename = "evaluation.json"
    THEN [d EXCEPT ![id].dir = TRUE, ![id].evaluation = IF ok THEN content ELSE @]
    ELSE [d EXCEPT ![id].dir = TRUE, ![id].compliance = IF ok THEN content ELSE @]

\* PersistenceService.delete_file
delete_file_compliance_only(d, id, filename) ==
    IF filename = "evaluation.json" THEN d
    ELSE [d EXCEPT ![id].compliance = Absent]

delete_file(d, id, filename) ==
    IF filename = "evaluation.json"
    THEN [d EXCEPT ![id].evaluation = Absent]
    ELSE [d EXCEPT ![id].compliance = Absent]

\* PersistenceService.scan_completed_tasks: the directories holding meta.json
scan_completed_tasks_with_audio(d) ==
    {i \in Ids : d[i].dir /\ d[i].meta /\ d[i].media = "audio"}

scan_completed_tasks(d) == {i \in Ids : d[i].dir /\ d[i].meta}

(* ---------------------------- submission ------------------------------- *)
\* registry after self._tasks[task_id] = info
Register(id, info) ==
    [i \in DOMAIN tasks \cup {id} |-> IF i = id THEN info ELSE tasks[i]]

\* asyncio.create_task: the coroutine is queued behind the ones created
\* before it (pc = "created": it has not run yet)
Spawn(id, kind, src) == workers' = Append(workers, Worker(id, kind, src))

\* room for one more coroutine within the model's bound
CanSpawn == Len(workers) < MaxWorkers

\* routers/task.py submit_transcript_task with TaskStore.submit_transcript:
\* h the SHA-256 of the upload, hw the hotwords, video whether the suffix is a
\* video extension, fault which persistence write of the handler raises
submit_transcript_task(h, hw, video, fault) ==
    /\ phase = "serving"
    /\ LET existing_id == lookup_by_hash(h)
           kind == IF video THEN "video" ELSE "audio"
       IN  IF existing_id # None
           THEN /\ response' = Response("submit_transcript", existing_id, TRUE, 202)
                /\ UNCHANGED << phase, nextId, tasks, hash_index, workers, disk,
                                hash_index_file >>
           ELSE /\ nextId <= MaxTasks
                /\ CanSpawn
                /\ nextId' = nextId + 1
                /\ tasks' = Register(nextId, TaskInfo(FALSE, None))
                /\ Spawn(nextId, "transcript", hw)
                /\ hash_index' = register_hash(IndexAfterLookup(h), h, nextId)
                /\ hash_index_file' = hash_index'
                /\ disk' = IF fault = "media"
                           THEN save_media(disk, nextId, kind, FALSE)
                           ELSE save_meta(save_media(disk, nextId, kind, TRUE),
                                          nextId, fault = "none")
                /\ response' = Response("submit_transcript", nextId, FALSE,
                                    IF fault = "none" THEN 202 ELSE 500)
                /\ UNCHANGED phase
    /\ UNCHANGED services

\* routers/evaluation.py submit_evaluate_task with TaskStore.submit_evaluation
submit_evaluation(hw) ==
    /\ phase = "serving"
    /\ nextId <= MaxTasks
    /\ CanSpawn
    /\ nextId' = nextId + 1
    /\ tasks' = Register(nextId, TaskInfo(FALSE, None))
    /\ Spawn(nextId, "evaluation", hw)
    /\ response' = Response("submit_evaluation", nextId, FALSE, 202)
    /\ UNCHANGED << phase, hash_index, disk, hash_index_file >>
    /\ UNCHANGED services

\* TaskStore.submit_text_evaluation (text: the content evaluated; parent: the
\* parent_task_id form field, None when absent)
submit_text_evaluation(text, parent) ==
    /\ phase = "serving"
    /\ nextId <= MaxTasks
    /\ CanSpawn
    /\ nextId' = nextId + 1
    /\ tasks' = Register(nextId, TaskInfo(TRUE, parent))
    /\ Spawn(nextId, "text_eval", text)
    /\ response' = Response("submit_text_evaluation", nextId, FALSE, 202)
    /\ UNCHANGED << phase, hash_index, disk, hash_index_file >>
    /\ UNCHANGED services

\* TaskStore.submit_compliance_audit
submit_compliance_audit(entries, parent) ==
    /\ phase = "serving"
    /\ nextId <= MaxTasks
    /\ CanSpawn
    /\ nextId' = nextId + 1
    /\ tasks' = Register(nextId, TaskInfo(TRUE, parent))
    /\ Spawn(nextId, "audit", entries)
    /\ response' = Response("submit_compliance_audit", nextId, FALSE, 202)
    /\ UNCHANGED << phase, hash_index, disk, hash_index_file >>
    /\ UNCHANGED services

\* TaskStore.rerun_transcript, "reset task state"
reset_wrong_status(t) ==
    [t EXCEPT !.status = "processing_asr", !.current_chunk = 0, !.total_chunks = 0,
              !.result = Absent, !.error = NoError]

reset(t) ==
    [t EXCEPT !.status = "pending", !.current_chunk = 0, !.total_chunks = 0,
              !.result = Absent, !.error = NoError]

\* TaskStore.rerun_transcript behind routers/task.py rerun_transcript
rerun_transcript(task_id, hw) ==
    /\ phase = "serving"
    /\ IF task_id \notin DOMAIN tasks \/ find_audio(disk, task_id) = "none"
       THEN /\ response' = Response("rerun_transcript", None, FALSE, 404)
            /\ UNCHANGED << phase, nextId, tasks, hash_index, workers, disk,
                            hash_index_file >>
       ELSE /\ CanSpawn
            /\ tasks' = [tasks EXCEPT ![task_id] = reset(@)]
            /\ disk' = delete_file(delete_file(disk, task_id, "evaluation.json"),
                                   task_id, "compliance.json")
            /\ Spawn(task_id, "transcript", hw)
            /\ response' = Response("rerun_transcript", task_id, FALSE, 200)
            /\ UNCHANGED << phase, nextId, hash_index, hash_index_file >>
    /\ UNCHANGED services

(* ---------------------------- workers ---------------------------------- *)
\* the worker has left its coroutine
Ended(w) == [i \in 1..(Len(workers) - 1) |-> IF i < w THEN workers[i] ELSE workers[i + 1]]

\* str(e) in _run_transcript; str(e) or type(e).__name__ in the other workers
ErrorText(kind, msg) ==
    IF kind = "transcript" THEN msg
    ELSE IF msg = "" THEN "Exception" ELSE msg

\* the except branch of a worker: task.status = FAILED; task.error = ...
Failed_dropping_result(t, kind, msg) ==
    [t EXCEPT !.status = "failed", !.error = ErrorText(kind, msg), !.result = Absent]

Failed_error_only(t, kind, msg) == [t EXCEPT !.error = ErrorText(kind, msg)]

Failed(t, kind, msg) ==
    [t EXCEPT !.status = "failed", !.error = ErrorText(kind, msg)]

\* the event loop runs new coroutines in the order of their creation
FirstCreated ==
    CHOOSE w \in DOMAIN workers :
        /\ workers[w].pc = "created"
        /\ \A v \in 1..(w - 1) : workers[v].pc # "created"

\* First run of a worker coroutine, up to its first suspension:
\*   _run_transcript, _run_evaluation: status = PROCESSING_ASR, await the pipeline
\*   _run_text_evaluation: status = EVALUATING, counters 0, evaluate() reports
\*       on_progress(0, total) before its first await
\*   _run_compliance_audit: status = AUDITING, counters 0, parse_rules (which
\*       raises on a bad rules file), audit() reports on_progress(0, total)
WorkerStart(total, rules_ok, msg) ==
    /\ \E w \in DOMAIN workers : workers[w].pc = "created"
    /\ LET w == FirstCreated
           wk == workers[w]
           t == tasks[wk.tid]
       IN  IF wk.kind \in {"transcript", "evaluation"}
           THEN /\ total = 1 /\ rules_ok
                /\ tasks' = [tasks EXCEPT ![wk.tid].status = "processing_asr"]
                /\ workers' = [workers EXCEPT ![w].pc = "pipeline"]
           ELSE IF wk.kind = "text_eval"
           THEN /\ rules_ok
                /\ tasks' = [tasks EXCEPT ![wk.tid].status = "evaluating",
                                          ![wk.tid].current_chunk = 0,
                                          ![wk.tid].total_chunks = total]
                /\ workers' = [workers EXCEPT ![w].pc = "evaluating",
                                              ![w].total = total]
           ELSE IF rules_ok
           THEN /\ tasks' = [tasks EXCEPT ![wk.tid].status = "auditing",
                                          ![wk.tid].current_chunk = 0,
                                          ![wk.tid].total_chunks = total]
                /\ workers' = [workers EXCEPT ![w].pc = "auditing",
                                              ![w].total = total]
           ELSE /\ total = 1
                /\ tasks' = [tasks EXCEPT ![wk.tid] =
                       Failed([t EXCEPT !.status = "auditing", !.current_chunk = 0,
                                        !.total_chunks = 0], wk.kind, msg)]
                /\ workers' = Ended(w)
    /\ UNCHANGED << phase, nextId, hash_index, disk, hash_index_file >>
    /\ response' = NoResponse
    /\ UNCHANGED services

\* on_progress(completed, total) of the correction stage, called when one
\* batch of the fan-out completes: status = CORRECTING and both counters
on_progress_current_only(t, current, total) ==
    [t EXCEPT !.status = "correcting", !.current_chunk = current]

on_progress(t, current, total) ==
    [t EXCEPT !.status = "correcting", !.current_chunk = current, !.total_chunks = total]

\* on_eval_progress / on_audit_progress: the counters only
on_eval_progress(t, current, total) ==
    [t EXCEPT !.current_chunk = current, !.total_chunks = total]

\* one batch (correction) or one map chunk (evaluation, audit) completes
WorkerProgress(w, total) ==
    /\ w \in DOMAIN workers
    /\ LET wk == workers[w]
       IN  \/ /\ wk.pc = "pipeline"
              /\ wk.total \in {0, total}
              /\ wk.done < total
              /\ tasks' = [tasks EXCEPT ![wk.tid] = on_progress(@, wk.done + 1, total)]
              /\ workers' = [workers EXCEPT ![w].done = wk.done + 1, ![w].total = total]
           \/ /\ wk.pc \in {"evaluating", "auditing"}
              /\ total = wk.total
              /\ wk.done < wk.total - 1
              /\ tasks' = [tasks EXCEPT ![wk.tid] = on_eval_progress(@, wk.done + 1, total)]
              /\ workers' = [workers EXCEPT ![w].done = wk.done + 1]
    /\ UNCHANGED << phase, nextId, hash_index, disk, hash_index_file >>
    /\ response' = NoResponse
    /\ UNCHANGED services

\* the awaited call can return or raise: no fan-out call is outstanding
Returning(wk) ==
    \/ wk.pc = "pipeline" /\ (wk.total = 0 \/ wk.done = wk.total)
    \/ wk.pc \in {"evaluating", "auditing"} /\ wk.done = wk.total - 1

\* _run_evaluation after pipeline.process returned: status = EVALUATING,
\* counters 0, then evaluate() reports on_progress(0, total)
WorkerEvaluate(w, total) ==
    /\ w \in DOMAIN workers
    /\ workers[w].kind = "evaluation"
    /\ workers[w].pc = "pipeline"
    /\ Returning(workers[w])
    /\ tasks' = [tasks EXCEPT ![workers[w].tid].status = "evaluating",
                              ![workers[w].tid].current_chunk = 0,
                              ![workers[w].tid].total_chunks = total]
    /\ workers' = [workers EXCEPT ![w].pc = "evaluating", ![w].done = 0, ![w].total = total]
    /\ UNCHANGED << phase, nextId, hash_index, disk, hash_index_file >>
    /\ response' = NoResponse
    /\ UNCHANGED services

\* task.result = ...; task.status = TaskStatus.COMPLETED
Completed_without_result(t, result) == [t EXCEPT !.status = "completed"]

Completed(t, result) == [t EXCEPT !.result = result, !.status = "completed"]

\* the result file a worker writes: (directory, file name), None when it writes none
ResultFile(wk, t) ==
    IF wk.kind = "transcript" THEN << wk.tid, "transcript.json" >>
    ELSE IF wk.kind = "text_eval" /\ t.parent_task_id # None
        THEN << t.parent_task_id, "evaluation.json" >>
    ELSE IF wk.kind = "audit" /\ t.parent_task_id # None
        THEN << t.parent_task_id, "compliance.json" >>
    ELSE << None, "" >>

\* the tail of a worker after its awaited call returned: the last progress
\* report of evaluate()/audit(), task.result = ..., task.status = COMPLETED,
\* save_json; a raising save_json lands in the except branch (save_ok = FALSE)
WorkerFinish(w, save_ok, msg) ==
    /\ w \in DOMAIN workers
    /\ LET wk == workers[w]
           t == tasks[wk.tid]
           file == ResultFile(wk, t)
           reported == IF wk.pc = "pipeline" THEN t
                       ELSE on_eval_progress(t, wk.total, wk.total)
           completed == Completed(reported, wk.src)
       IN  /\ Returning(wk)
           /\ ~(wk.kind = "evaluation" /\ wk.pc = "pipeline")
           /\ file[1] = None => save_ok
           /\ tasks' = [tasks EXCEPT ![wk.tid] =
                  IF save_ok THEN completed ELSE Failed(completed, wk.kind, msg)]
           /\ disk' = IF file[1] = None THEN disk
                      ELSE save_json(disk, file[1], file[2], wk.src, save_ok)
           /\ workers' = Ended(w)
    /\ UNCHANGED << phase, nextId, hash_index, hash_index_file >>
    /\ response' = NoResponse
    /\ UNCHANGED services

\* the awaited pipeline / evaluate / audit call raises
WorkerFail(w, msg) ==
    /\ w \in DOMAIN workers
    /\ Returning(workers[w])
    /\ tasks' = [tasks EXCEPT ![workers[w].tid] = Failed(@, workers[w].kind, msg)]
    /\ workers' = Ended(w)
    /\ UNCHANGED << phase, nextId, hash_index, disk, hash_index_file >>
    /\ response' = NoResponse
    /\ UNCHANGED services

\* The timeout wrapper of a worker ("every worker is run under
\* task_timeout_seconds; on expiry the task transitions to failed with an
\* explicit timeout message"): the worker, suspended in its awaited call, is
\* cancelled and the wrapper marks the task failed
TimeoutMessage == "timeout"

WorkerTimeout(w) ==
    /\ w \in DOMAIN workers
    /\ workers[w].pc # "created"
    /\ tasks' = [tasks EXCEPT ![workers[w].tid] =
           Failed(@, workers[w].kind, TimeoutMessage)]
    /\ workers' = Ended(w)
    /\ UNCHANGED << phase, nextId, hash_index, disk, hash_index_file >>
    /\ response' = NoResponse
    /\ UNCHANGED services

(* ---------------------------- restart ---------------------------------- *)
\* PersistenceService.load_hash_index
load_hash_index == hash_index_file

\* The process stops (all coroutines and the registry are gone) and main.py
\* lifespan builds a new TaskStore over the same uploads directory
Restart ==
    /\ phase' = "starting"
    /\ tasks' = << >>
    /\ workers' = << >>
    /\ hash_index' = load_hash_index
    /\ response' = NoResponse
    /\ UNCHANGED << nextId, disk, hash_index_file >>
    /\ UNCHANGED services

\* TaskStore.restore_from_disk: the TaskInfo built for one scanned entry
Restored(d, id) ==
    LET info == TaskInfo(FALSE, None)
    IN  IF has_file(d, id)
        THEN Completed(info, d[id].transcript)
        ELSE info

\* TaskStore.restore_from_disk: "if info.status != TaskStatus.COMPLETED: continue"
RestoreKeepsAll(info) == TRUE

RestoreKeeps(info) == info.status = "completed"

\* TaskStore.restore_from_disk, called once by lifespan before serving
restore_from_disk ==
    /\ phase = "starting"
    /\ phase' = "serving"
    /\ LET kept == {i \in scan_completed_tasks(disk) :
                       i \notin DOMAIN tasks /\ RestoreKeeps(Restored(disk, i))}
       IN  tasks' = [i \in DOMAIN tasks \cup kept |->
                        IF i \in DOMAIN tasks THEN tasks[i] ELSE Restored(disk, i)]
    /\ response' = Response("restore", None, FALSE, 0)
    /\ UNCHANGED << nextId, hash_index, workers, disk, hash_index_file >>
    /\ UNCHANGED services

(* ---------------------------- ModelManager ----------------------------- *)
\* services/model_manager.py.  A caller is one coroutine using the manager;
\* its steps are the code between two suspension points (waiting for _lock,
\* asyncio.to_thread(loader), asyncio.to_thread(unloader)).
MaxCallers == 2

Callers == 1..MaxCallers

\* the model types registered with register_loader ("OCR, YOLO, etc.")
ModelTypes == {"ocr", "yolo"}

\* the model types registered with an unloader (register_loader's optional
\* third argument)
Unloaders == {"ocr"}

IdleCaller == [pc |-> "idle", op |-> "none", type |-> "none", todo |-> {}]

InitMM ==
    /\ mm_lock = None
    /\ mm_loaded = {}
    /\ mm_callers = [c \in Callers |-> IdleCaller]

\* the names the loops of a call pass to _do_unload: list(self._loaded)
\* without the requested type (acquire), the given type (unload), or
\* list(self._loaded) (unload_all)
to_unload_explicit_only(op, type) ==
    IF op = "unload" THEN {type}
    ELSE IF op = "unload_all" THEN mm_loaded
    ELSE {}

to_unload(op, type) ==
    IF op = "acquire" THEN mm_loaded \ {type}
    ELSE IF op = "unload" THEN {type}
    ELSE mm_loaded

\* a coroutine calls acquire(type), unload(type) or unload_all() and reaches
\* "async with self._lock"
mm_call(c, op, type) ==
    /\ mm_callers[c].pc = "idle"
    /\ op = "unload_all" => type = "none"
    /\ op # "unload_all" => type \in ModelTypes
    /\ mm_callers' = [mm_callers EXCEPT ![c] =
           [pc |-> "locking", op |-> op, type |-> type, todo |-> {}]]
    /\ UNCHANGED << mm_lock, mm_loaded >>
    /\ UNCHANGED << vars, llm_vars, pipe_vars, aux_vars >>

\* the lock is free: the caller enters "async with self._lock" and takes the
\* snapshot its loop iterates over
mm_locked(c) ==
    /\ mm_callers[c].pc = "locking"
    /\ mm_lock = None
    /\ mm_lock' = c
    /\ mm_callers' = [mm_callers EXCEPT ![c].pc = "locked",
           ![c].todo = to_unload(mm_callers[c].op, mm_callers[c].type)]
    /\ UNCHANGED mm_loaded
    /\ UNCHANGED << vars, llm_vars, pipe_vars, aux_vars >>

\* _do_unload(name): pop from _loaded; with an unloader registered the caller
\* suspends in asyncio.to_thread(unloader, model), otherwise it goes on
mm_do_unload(c, name) ==
    /\ mm_callers[c].pc = "locked"
    /\ name \in mm_callers[c].todo
    /\ mm_loaded' = mm_loaded \ {name}
    /\ mm_callers' = [mm_callers EXCEPT ![c].todo = @ \ {name},
           ![c].pc = IF name \in mm_loaded /\ name \in Unloaders
                     THEN "unloading" ELSE "locked"]
    /\ UNCHANGED mm_lock
    /\ UNCHANGED << vars, llm_vars, pipe_vars, aux_vars >>

\* asyncio.to_thread(unloader, model) returns (ok) or raises: the exception
\* leaves "async with self._lock" and the call
mm_unloaded(c, ok) ==
    /\ mm_callers[c].pc = "unloading"
    /\ IF ok
       THEN /\ mm_callers' = [mm_callers EXCEPT ![c].pc = "locked"]
            /\ UNCHANGED mm_lock
       ELSE /\ mm_callers' = [mm_callers EXCEPT ![c] = IdleCaller]
            /\ mm_lock' = None
    /\ UNCHANGED mm_loaded
    /\ UNCHANGED << vars, llm_vars, pipe_vars, aux_vars >>

\* the loop is over.  unload / unload_all: leave the lock and return.
\* acquire: "if model_type not in self._loaded: await self._do_load(...)",
\* else leave the lock and yield the model
mm_after_loop(c) ==
    /\ mm_callers[c].pc = "locked"
    /\ mm_callers[c].todo = {}
    /\ IF mm_callers[c].op # "acquire"
       THEN /\ mm_callers' = [mm_callers EXCEPT ![c] = IdleCaller]
            /\ mm_lock' = None
       ELSE IF mm_callers[c].type \in mm_loaded
       THEN /\ mm_callers' = [mm_callers EXCEPT ![c].pc = "in_scope"]
            /\ mm_lock' = None
       ELSE /\ mm_callers' = [mm_callers EXCEPT ![c].pc = "loading"]
            /\ UNCHANGED mm_lock
    /\ UNCHANGED mm_loaded
    /\ UNCHANGED << vars, llm_vars, pipe_vars, aux_vars >>

\* _do_load: asyncio.to_thread(loader) returns and the model is stored, the
\* lock is left and the model is yielded to the caller; or the loader raises
mm_do_load(c, ok) ==
    /\ mm_callers[c].pc = "loading"
    /\ mm_lock' = None
    /\ IF ok
       THEN /\ mm_loaded' = mm_loaded \cup {mm_callers[c].type}
            /\ mm_callers' = [mm_callers EXCEPT ![c].pc = "in_scope"]
       ELSE /\ mm_callers' = [mm_callers EXCEPT ![c] = IdleCaller]
            /\ UNCHANGED mm_loaded
    /\ UNCHANGED << vars, llm_vars, pipe_vars, aux_vars >>

\* the caller leaves the body of "async with manager.acquire(...)"
mm_scope_end(c) ==
    /\ mm_callers[c].pc = "in_scope"
    /\ mm_callers' = [mm_callers EXCEPT ![c] = IdleCaller]
    /\ UNCHANGED << mm_lock, mm_loaded >>
    /\ UNCHANGED << vars, llm_vars, pipe_vars, aux_vars >>

NextMM ==
    \/ \E c \in Callers, op \in {"acquire", "unload", "unload_all"},
          type \in ModelTypes \cup {"none"} : mm_call(c, op, type)
    \/ \E c \in Callers : mm_locked(c)
    \/ \E c \in Callers, name \in ModelTypes : mm_do_unload(c, name)
    \/ \E c \in Callers, ok \in BOOLEAN : mm_unloaded(c, ok)
    \/ \E c \in Callers : mm_after_loop(c)
    \/ \E c \in Callers, ok \in BOOLEAN : mm_do_load(c, ok)
    \/ \E c \in Callers : mm_scope_end(c)

(* ---------------------------- OllamaClient ----------------------------- *)
\* services/llm.py.  A chat is one coroutine inside OllamaClient.chat; all of
\* them use the one client built in main.py lifespan.
MaxChats == 2                \* coroutines calling chat at the same time
llm_max_concurrent == 1      \* permits of the semaphore (the setting defaults to 3)
StreamLen == 2               \* content lines of one response stream

llm_max_retries == 2         \* settings.llm_max_retries (config.py)
llm_retry_delay == 2         \* settings.llm_retry_delay, seconds (config.py)

Chats == 1..MaxChats

\* how an attempt can fail: connection refused, no line within the read
\* timeout, raise_for_status on a 5xx / 4xx response, connection reset while
\* reading (httpx.ReadError), no connection within the connect timeout
Errors ==
    {"ConnectError", "ReadTimeout", "HTTP500", "HTTP404", "ReadError",
     "ConnectTimeout"}

\* failures of the network and 5xx responses
NetworkOr5xx == Errors \ {"HTTP404"}

\* failures raised before the first line of the stream is read
BeforeStream == {"ConnectError", "ConnectTimeout", "HTTP500", "HTTP404"}

\* except (httpx.ReadTimeout, httpx.ConnectError, httpx.HTTPStatusError)
caught(e) == e \in {"ReadTimeout", "ConnectError", "HTTP500", "HTTP404"}

\* max_attempts = 1 + self._max_retries
max_attempts == 1 + llm_max_retries

\* delay = self._retry_delay * (2 ** (attempt - 1))
delay(attempt) == llm_retry_delay * (2 ^ (attempt - 1))

\* content_parts: list[str] = [] at the start of _do_chat (parts: what the
\* previous attempt of the call had collected)
content_parts_kept(parts) == parts

content_parts(parts) == << >>

\* the content lines the server streams in answer to attempt number attempt
Stream(attempt) == [i \in 1..StreamLen |-> attempt]

\* "async with self._semaphore" can be entered
has_permit_always(sem) == TRUE

has_permit(sem) == sem > 0

\* partial: an attempt of the call failed after content lines had been read
IdleChat ==
    [pc |-> "idle", attempt |-> 0, parts |-> << >>, result |-> << >>,
     error |-> "none", delays |-> << >>, partial |-> FALSE]

InitLLM ==
    /\ semaphore = llm_max_concurrent
    /\ chats = [c \in Chats |-> IdleChat]

\* the chats inside _do_chat (a request in flight to the LLM service)
InFlight == {c \in Chats : chats[c].pc = "streaming"}

\* a caller (correction batch, audit chunk, evaluation) calls chat(): first
\* iteration of the loop, up to "async with self._semaphore"
chat(c) ==
    /\ chats[c].pc = "idle"
    /\ chats' = [chats EXCEPT ![c] = [IdleChat EXCEPT !.pc = "waiting", !.attempt = 1]]
    /\ UNCHANGED semaphore
    /\ UNCHANGED << vars, mm_vars, pipe_vars, aux_vars >>

\* the semaphore is entered and _do_chat opens the stream
do_chat(c) ==
    /\ chats[c].pc = "waiting"
    /\ has_permit(semaphore)
    /\ semaphore' = semaphore - 1
    /\ chats' = [chats EXCEPT ![c].pc = "streaming",
                              ![c].parts = content_parts(chats[c].parts)]
    /\ UNCHANGED << vars, mm_vars, pipe_vars, aux_vars >>

\* one line of the stream is read: content_parts.append(...)
chat_line(c) ==
    /\ chats[c].pc = "streaming"
    /\ Len(chats[c].parts) < StreamLen
    /\ chats' = [chats EXCEPT ![c].parts =
           Append(@, Stream(chats[c].attempt)[Len(chats[c].parts) + 1])]
    /\ UNCHANGED semaphore
    /\ UNCHANGED << vars, mm_vars, pipe_vars, aux_vars >>

\* the stream ends: _do_chat returns ChatResponse("".join(content_parts)),
\* the semaphore is left and chat returns it
chat_return(c) ==
    /\ chats[c].pc = "streaming"
    /\ Len(chats[c].parts) = StreamLen
    /\ semaphore' = semaphore + 1
    /\ chats' = [chats EXCEPT ![c].pc = "returned", ![c].result = chats[c].parts]
    /\ UNCHANGED << vars, mm_vars, pipe_vars, aux_vars >>

\* the attempt raises e: the semaphore is left; an exception of the except
\* clause is retried after the delay unless it was the last attempt, any
\* other exception leaves chat at once
chat_except(c, e) ==
    /\ chats[c].pc = "streaming"
    /\ e \in BeforeStream => chats[c].parts = << >>
    /\ semaphore' = semaphore + 1
    /\ chats' = [chats EXCEPT ![c] =
           IF caught(e) /\ chats[c].attempt < max_attempts
           THEN [@ EXCEPT !.pc = "sleeping", !.error = e,
                          !.partial = @ \/ chats[c].parts # << >>,
                          !.delays = Append(@, delay(chats[c].attempt))]
           ELSE [@ EXCEPT !.pc = "raised", !.error = e,
                          !.partial = @ \/ chats[c].parts # << >>]]
    /\ UNCHANGED << vars, mm_vars, pipe_vars, aux_vars >>

\* asyncio.sleep(delay) is over: next iteration of the loop
chat_retry(c) ==
    /\ chats[c].pc = "sleeping"
    /\ chats' = [chats EXCEPT ![c].pc = "waiting", ![c].attempt = @ + 1]
    /\ UNCHANGED semaphore
    /\ UNCHANGED << vars, mm_vars, pipe_vars, aux_vars >>

\* the caller has taken the response or the exception
chat_done(c) ==
    /\ chats[c].pc \in {"returned", "raised"}
    /\ chats' = [chats EXCEPT ![c] = IdleChat]
    /\ UNCHANGED semaphore
    /\ UNCHANGED << vars, mm_vars, pipe_vars, aux_vars >>

NextLLM ==
    \/ \E c \in Chats : chat(c)
    \/ \E c \in Chats : do_chat(c)
    \/ \E c \in Chats : chat_line(c)
    \/ \E c \in Chats : chat_return(c)
    \/ \E c \in Chats, e \in Errors : chat_except(c, e)
    \/ \E c \in Chats : chat_retry(c)
    \/ \E c \in Chats : chat_done(c)

(* ---------------------------- transcript pipeline ---------------------- *)
\* services/pipeline: PipelineService.process_transcript, PipelineOrchestrator
\* and the stages, under the _run_transcript worker that calls them.  A run is
\* one process_transcript call; all runs use the one PipelineService (and so
\* the one ASRTranscribeStage and its lock) built in main.py lifespan.
MaxRuns == 2

Runs == 1..MaxRuns

\* PipelineService.__init__: the stages in the order of their registration
Stages ==
    << "video_preprocess", "audio_preprocess", "asr_transcribe",
       "keyframe_extract", "ocr_scan", "face_detect", "speaker_smooth",
       "text_correction", "transcript_build" >>

\* PipelineContext(...) as process_transcript builds it (video: the suffix of
\* filename is a video extension); a field is TRUE when it is set / non-empty
PipelineContext(video) ==
    [ video |-> video, wav_path |-> FALSE, video_path |-> FALSE,
      keyframes |-> FALSE, segments |-> FALSE, correction_map |-> FALSE ]

\* Stage.should_run of each stage
should_run(stage, ctx) ==
    IF stage = "video_preprocess" THEN ctx.video
    ELSE IF stage = "audio_preprocess" THEN TRUE
    ELSE IF stage = "asr_transcribe" THEN ctx.wav_path
    ELSE IF stage = "keyframe_extract" THEN ctx.video_path
    ELSE IF stage \in {"ocr_scan", "face_detect"} THEN ctx.keyframes
    ELSE IF stage \in {"speaker_smooth", "text_correction"} THEN ctx.segments
    ELSE ctx.segments /\ ctx.correction_map

\* Stage.execute of each stage: the context it returns (found: the stage
\* produced a non-empty list of keyframes / segments)
execute(stage, ctx, found) ==
    IF stage = "video_preprocess"
        THEN [ctx EXCEPT !.wav_path = TRUE, !.video_path = TRUE]
    ELSE IF stage = "audio_preprocess" THEN [ctx EXCEPT !.wav_path = TRUE]
    ELSE IF stage = "asr_transcribe" THEN [ctx EXCEPT !.segments = found]
    ELSE IF stage = "keyframe_extract" THEN [ctx EXCEPT !.keyframes = found]
    ELSE IF stage = "text_correction" THEN [ctx EXCEPT !.correction_map = TRUE]
    ELSE ctx

\* the file a stage has written when it returns: into the task directory,
\* or, AudioService.preprocess, <uuid>_processed.wav into the uploads directory
artifact(stage) ==
    IF stage = "video_preprocess" THEN {"extracted.wav"}
    ELSE IF stage = "audio_preprocess" THEN {"processed.wav"}
    ELSE IF stage = "keyframe_extract" THEN {"keyframes.json"}
    ELSE IF stage = "ocr_scan" THEN {"ocr_results.json"}
    ELSE IF stage = "face_detect" THEN {"visual_events.json"}
    ELSE {}

\* ASRTranscribeStage.execute, "finally: self._audio.cleanup(ctx.wav_path)":
\* the file a stage removes when it returns or raises
cleanup(stage) ==
    IF stage = "asr_transcribe" THEN {"processed.wav"} ELSE {}

\* AudioService.preprocess, "input_path.write_bytes(audio_bytes)": the copy of
\* the upload, <uuid><suffix> in the uploads directory, that a stage writes
\* before its first await and unlinks in its finally clause
input_path(stage) ==
    IF stage = "audio_preprocess" THEN {"upload.bin"} ELSE {}

\* the output file of the ffmpeg run of a stage (_run_ffmpeg, _extract_audio:
\* "ffmpeg -y ... output_path").  When ffmpeg ends with a return code other
\* than 0 the stage raises AudioProcessingError and removes nothing; whether
\* ffmpeg had already created the output file is not under the program's
\* control.
output_path(stage) ==
    IF stage = "audio_preprocess" THEN {"processed.wav"}
    ELSE IF stage = "video_preprocess" THEN {"extracted.wav"}
    ELSE {}

\* the temporary files of audio preprocessing, in the uploads directory
Temporary == {"upload.bin", "processed.wav"}

\* PipelineOrchestrator.run, "for stage in self._stages: if not
\* stage.should_run(ctx): continue": the next stage executed at or after
\* position from (Len(Stages) + 1: none, run returns ctx)
next_stage_unchecked(from, ctx) == from

next_stage(from, ctx) ==
    IF \E i \in from..Len(Stages) : should_run(Stages[i], ctx)
    THEN CHOOSE i \in from..Len(Stages) :
             /\ should_run(Stages[i], ctx)
             /\ \A j \in from..(i - 1) : ~should_run(Stages[j], ctx)
    ELSE Len(Stages) + 1

\* "async with self._lock" of ASRTranscribeStage.execute can be entered
lock_free_always(lock) == TRUE

lock_free(lock) == lock = None

IdleRun ==
    [ pc |-> "idle", stage |-> 0, ctx |-> PipelineContext(FALSE),
      started |-> << >>, returned |-> << >>, files |-> {},
      status |-> "pending", error |-> NoError ]

InitPipe ==
    /\ asr_lock = None
    /\ runs = [r \in Runs |-> IdleRun]

\* _run_transcript, except branch: task.status = FAILED; task.error = str(e)
run_failed_silently(run, msg) == [run EXCEPT !.pc = "done", !.status = "completed"]

run_failed(run, msg) ==
    [run EXCEPT !.pc = "done", !.status = "failed", !.error = msg]

\* _run_transcript starts: status = PROCESSING_ASR, process_transcript builds
\* the context and calls the orchestrator
process_transcript(r, video) ==
    /\ runs[r].pc = "idle"
    /\ runs' = [runs EXCEPT ![r] =
           [IdleRun EXCEPT !.pc = "between", !.stage = 1,
                           !.ctx = PipelineContext(video),
                           !.status = "processing_asr"]]
    /\ UNCHANGED asr_lock
    /\ UNCHANGED << vars, mm_vars, llm_vars, aux_vars >>

\* the orchestrator loop skips the stages that are not to run and calls
\* execute of the next one, which runs up to its first await
stage_start(r) ==
    /\ runs[r].pc = "between"
    /\ LET i == next_stage(runs[r].stage, runs[r].ctx)
       IN  /\ i <= Len(Stages)
           /\ runs' = [runs EXCEPT ![r].stage = i,
                  ![r].started = Append(@, [stage |-> i,
                      should |-> should_run(Stages[i], runs[r].ctx)]),
                  ![r].files = @ \cup input_path(Stages[i]),
                  ![r].pc = IF Stages[i] = "asr_transcribe"
                            THEN "asr_wait" ELSE "executing"]
    /\ UNCHANGED asr_lock
    /\ UNCHANGED << vars, mm_vars, llm_vars, aux_vars >>

\* ASRTranscribeStage.execute enters the lock and starts
\* asyncio.to_thread(self._asr.transcribe, ...)
asr_transcribe(r) ==
    /\ runs[r].pc = "asr_wait"
    /\ lock_free(asr_lock)
    /\ asr_lock' = r
    /\ runs' = [runs EXCEPT ![r].pc = "transcribing"]
    /\ UNCHANGED << vars, mm_vars, llm_vars, aux_vars >>

\* the lock is left by the run that holds it
release(lock, r) == IF lock = r THEN None ELSE lock

\* execute returns the context; the orchestrator records the time
stage_return(r, found) ==
    /\ runs[r].pc \in {"executing", "transcribing"}
    /\ LET stage == Stages[runs[r].stage]
       IN  /\ stage \notin {"asr_transcribe", "keyframe_extract"} => found
           /\ runs' = [runs EXCEPT ![r].pc = "between",
                  ![r].stage = @ + 1,
                  ![r].ctx = execute(stage, @, found),
                  ![r].returned = Append(@, runs[r].stage),
                  ![r].files = ((@ \cup artifact(stage)) \ input_path(stage))
                                   \ cleanup(stage)]
    /\ asr_lock' = IF runs[r].pc = "transcribing" THEN release(asr_lock, r)
                   ELSE asr_lock
    /\ UNCHANGED << vars, mm_vars, llm_vars, aux_vars >>

\* execute raises: the exception passes through run and process_transcript
\* to the except branch of _run_transcript (left: the ffmpeg run of the stage
\* failed after it had created its output file)
stage_raise(r, msg, left) ==
    /\ runs[r].pc \in {"executing", "transcribing"}
    /\ LET stage == Stages[runs[r].stage]
       IN  /\ left => output_path(stage) # {}
           /\ runs' = [runs EXCEPT ![r] =
                  run_failed([@ EXCEPT !.files =
                      ((@ \cup (IF left THEN output_path(stage) ELSE {}))
                          \ input_path(stage)) \ cleanup(stage)], msg)]
    /\ asr_lock' = IF runs[r].pc = "transcribing" THEN release(asr_lock, r)
                   ELSE asr_lock
    /\ UNCHANGED << vars, mm_vars, llm_vars, aux_vars >>

\* no stage is left: run returns, _run_transcript sets result and status and
\* writes transcript.json (save_ok = FALSE: save_json raises)
run_return(r, save_ok, msg) ==
    /\ runs[r].pc = "between"
    /\ next_stage(runs[r].stage, runs[r].ctx) > Len(Stages)
    /\ runs' = [runs EXCEPT ![r] =
           IF save_ok
           THEN [@ EXCEPT !.pc = "done", !.status = "completed",
                          !.files = @ \cup {"transcript.json"}]
           ELSE run_failed([@ EXCEPT !.status = "completed"], msg)]
    /\ UNCHANGED asr_lock
    /\ UNCHANGED << vars, mm_vars, llm_vars, aux_vars >>

NextPipe ==
    \/ \E r \in Runs, video \in BOOLEAN : process_transcript(r, video)
    \/ \E r \in Runs : stage_start(r)
    \/ \E r \in Runs : asr_transcribe(r)
    \/ \E r \in Runs, found \in BOOLEAN : stage_return(r, found)
    \/ \E r \in Runs, msg \in Messages, left \in BOOLEAN : stage_raise(r, msg, left)
    \/ \E r \in Runs, save_ok \in BOOLEAN, msg \in Messages : run_return(r, save_ok, msg)

(* ---------------------------- LLM fan-out ------------------------------ *)
\* services/corrector.py correct_transcript and services/compliance.py audit:
\* one call that sends its batches (chunks) to the LLM concurrently.
MaxBatches == 3                  \* batches (chunks) of one call
correction_max_concurrency == 2  \* permits of correct_transcript's semaphore
                                 \* (the setting defaults to 3)
audit_attempts == 2              \* "for attempt in range(1, 3)" of _audit_chunk

FanKinds == {"correct", "audit"}

\* the variables of the other parts of the program
fan_rest ==
    << vars, mm_vars, llm_vars, pipe_vars,
       timeout_vars, evict_vars, files_vars, http_vars, audit_vars, corr_vars >>

\* what a batch yields: the parsed answer of the LLM, the input texts of the
\* batch unchanged (fallback), or the empty list of violations
Answer(i) == << "llm", i >>
Fallback(kind, i) == IF kind = "correct" THEN << "input", i >> ELSE << "empty", i >>

\* a batch: attempt the chat call it is at, errors the chat calls of it that
\* raised, ok whether an answer of the LLM was parsed
NoBatch ==
    [pc |-> "none", attempt |-> 0, errors |-> 0, out |-> << "none", 0 >>,
     ok |-> FALSE]

IdleFan ==
    [ pc |-> "idle", kind |-> "none", total |-> 0,
      batches |-> [i \in 1..MaxBatches |-> NoBatch],
      completed |-> 0, current |-> 0, total_steps |-> 0,
      result |-> << >>, summary |-> "none" ]

InitFan == fan = IdleFan

\* the batches inside "async with semaphore" of _process_batch
InSemaphore == {i \in 1..MaxBatches : fan.batches[i].pc = "chat"}

\* _process_batch enters "async with semaphore" (correct_transcript);
\* _audit_with_progress has no semaphore
may_enter(kind) ==
    kind = "audit" \/ Cardinality(InSemaphore) < correction_max_concurrency

\* the except branches around self._client.chat:
\*   _correct_transcript_batch: "except Exception: return fallback"
\*   _audit_chunk: "except Exception: logger.warning" and the loop goes on;
\*       after the last attempt "return []"
on_exception_reraise(batch, kind, i) == [batch EXCEPT !.pc = "raised"]

on_exception(batch, kind, i) ==
    IF kind = "audit" /\ batch.attempt < audit_attempts
    THEN [batch EXCEPT !.attempt = @ + 1]
    ELSE [batch EXCEPT !.pc = "done", !.out = Fallback(kind, i)]

\* "completed += 1; on_progress(completed, total)" after a batch: the
\* counters the callback is given
report(f) ==
    [f EXCEPT !.completed = @ + 1, !.current = f.completed + 1]

\* correct_transcript(entries) with n batches / audit(rules, entries) with n
\* chunks, up to "await asyncio.gather(*tasks)"; audit reports
\* on_progress(0, total_steps) first
fan_call(kind, n) ==
    /\ fan.pc = "idle"
    /\ fan' = [IdleFan EXCEPT !.pc = "gather", !.kind = kind, !.total = n,
           !.batches = [i \in 1..MaxBatches |->
               IF i <= n THEN [NoBatch EXCEPT !.pc = "queued"] ELSE NoBatch],
           !.total_steps = IF kind = "audit" THEN n + 1 ELSE n]
    /\ UNCHANGED fan_rest

\* a batch coroutine starts and reaches "await self._client.chat(...)"
batch_start(i) ==
    /\ fan.pc = "gather"
    /\ fan.batches[i].pc = "queued"
    /\ may_enter(fan.kind)
    /\ fan' = [fan EXCEPT !.batches[i].pc = "chat", !.batches[i].attempt = 1]
    /\ UNCHANGED fan_rest

\* chat returns and the answer is parsed (parsed = FALSE: the content is
\* empty or no JSON, which _correct_transcript_batch answers with the fallback
\* and _parse_violations with an exception)
batch_answer(i, parsed) ==
    /\ fan.pc = "gather"
    /\ fan.batches[i].pc = "chat"
    /\ LET b == fan.batches[i]
           next == IF parsed
                   THEN [b EXCEPT !.pc = "done", !.out = Answer(i), !.ok = TRUE]
                   ELSE IF fan.kind = "correct"
                   THEN [b EXCEPT !.pc = "done", !.out = Fallback("correct", i)]
                   ELSE on_exception(b, fan.kind, i)
           f == [fan EXCEPT !.batches[i] = next]
       IN  fan' = IF next.pc = "done" THEN report(f) ELSE f
    /\ UNCHANGED fan_rest

\* chat raises (the client's own retries are used up)
batch_llm_error(i) ==
    /\ fan.pc = "gather"
    /\ fan.batches[i].pc = "chat"
    /\ LET b == [fan.batches[i] EXCEPT !.errors = @ + 1]
           next == on_exception(b, fan.kind, i)
           f == [fan EXCEPT !.batches[i] = next]
       IN  fan' = IF next.pc = "done" THEN report(f) ELSE f
    /\ UNCHANGED fan_rest

\* gather is over: an exception of a batch leaves the call; otherwise
\* correct_transcript merges and returns, audit goes on to _generate_summary
gather_return ==
    /\ fan.pc = "gather"
    /\ \A i \in 1..fan.total : fan.batches[i].pc \in {"done", "raised"}
    /\ LET outs == [i \in 1..fan.total |-> fan.batches[i].out]
       IN  fan' = IF \E i \in 1..fan.total : fan.batches[i].pc = "raised"
                  THEN [fan EXCEPT !.pc = "raised"]
                  ELSE IF fan.kind = "correct"
                  THEN [fan EXCEPT !.pc = "returned", !.result = outs]
                  ELSE [fan EXCEPT !.pc = "summary", !.result = outs]
    /\ UNCHANGED fan_rest

\* _generate_summary: the summary of the LLM, or the counted summary when the
\* chat raises; audit reports on_progress(total_steps, total_steps), returns
generate_summary(llm_ok) ==
    /\ fan.pc = "summary"
    /\ fan' = [fan EXCEPT !.pc = "returned",
           !.summary = IF llm_ok THEN "llm" ELSE "counted",
           !.current = fan.total_steps]
    /\ UNCHANGED fan_rest

\* the caller has the result (or the exception)
fan_done ==
    /\ fan.pc \in {"returned", "raised"}
    /\ fan' = IdleFan
    /\ UNCHANGED fan_rest

NextFan ==
    \/ \E kind \in FanKinds, n \in 1..MaxBatches : fan_call(kind, n)
    \/ \E i \in 1..MaxBatches : batch_start(i)
    \/ \E i \in 1..MaxBatches, parsed \in BOOLEAN : batch_answer(i, parsed)
    \/ \E i \in 1..MaxBatches : batch_llm_error(i)
    \/ gather_return
    \/ \E llm_ok \in BOOLEAN : generate_summary(llm_ok)
    \/ fan_done

(* ---------------------------- timeout wrapper -------------------------- *)
\* The timeout wrapper of TaskStore in time: "every worker is run under
\* task_timeout_seconds; on expiry the task transitions to failed with an
\* explicit timeout message".  now counts seconds; a guard is one worker run
\* under the wrapper.
MaxGuards == 2               \* workers under the wrapper at the same time
MaxTime == 5                 \* seconds the clock is followed
task_timeout_seconds == 2    \* the setting (it defaults to 3600)

Guards == 1..MaxGuards

timeout_rest ==
    << vars, mm_vars, llm_vars, pipe_vars,
       fan_vars, evict_vars, files_vars, http_vars, audit_vars, corr_vars >>

IdleGuard == [pc |-> "idle", started |-> 0, status |-> "pending", error |-> NoError]

InitTimeout ==
    /\ now = 0
    /\ guards = [g \in Guards |-> IdleGuard]

\* the deadline of a running worker has come
expired_never(g) == FALSE

expired(g) == now - guards[g].started >= task_timeout_seconds

\* the wrapper starts the worker: the timer runs from now on
guard_start(g) ==
    /\ guards[g].pc = "idle"
    /\ guards' = [guards EXCEPT ![g] =
           [IdleGuard EXCEPT !.pc = "running", !.started = now,
                             !.status = "processing_asr"]]
    /\ UNCHANGED now
    /\ UNCHANGED timeout_rest

\* the worker ends by itself before the timer fires (ok: it returns, else its
\* except branch ran)
guard_worker_ends(g, ok, msg) ==
    /\ guards[g].pc = "running"
    /\ guards' = [guards EXCEPT ![g].pc = "ended",
           ![g].status = IF ok THEN "completed" ELSE "failed",
           ![g].error = IF ok THEN NoError ELSE msg]
    /\ UNCHANGED now
    /\ UNCHANGED timeout_rest

\* the timer of the wrapper fires: the worker is cancelled and the task is
\* marked failed with the timeout message
guard_expires(g) ==
    /\ guards[g].pc = "running"
    /\ expired(g)
    /\ guards' = [guards EXCEPT ![g].pc = "ended", ![g].status = "failed",
                                ![g].error = TimeoutMessage]
    /\ UNCHANGED now
    /\ UNCHANGED timeout_rest

\* a second passes; the event loop runs a timer that is due before time
\* goes on
tick ==
    /\ now < MaxTime
    /\ \A g \in Guards : guards[g].pc = "running" => ~expired(g)
    /\ now' = now + 1
    /\ UNCHANGED guards
    /\ UNCHANGED timeout_rest

NextTimeout ==
    \/ \E g \in Guards : guard_start(g)
    \/ \E g \in Guards, ok \in BOOLEAN, msg \in Messages : guard_worker_ends(g, ok, msg)
    \/ \E g \in Guards : guard_expires(g)
    \/ tick

(* ---------------------------- eviction --------------------------------- *)
\* The eviction of TaskStore: "when len(tasks) > max_in_memory, evict terminal
\* tasks from oldest insertion order until the bound holds; on-disk state is
\* untouched".  registry is the task dict in insertion order; a task is
\* registered by a submission, which then evicts.
MaxSubmitted == 5            \* submissions that are followed
task_max_in_memory == 2      \* the setting (it defaults to 500)

evict_rest ==
    << vars, mm_vars, llm_vars, pipe_vars,
       fan_vars, timeout_vars, files_vars, http_vars, audit_vars, corr_vars >>

InitEvict ==
    /\ registry = << >>
    /\ on_disk = {}
    /\ submitted = 0

\* the sequence without its element at position k
Without(seq, k) ==
    [i \in 1..(Len(seq) - 1) |-> IF i < k THEN seq[i] ELSE seq[i + 1]]

\* position of the oldest terminal task (0: there is none)
oldest_any(reg) == IF Len(reg) > 0 THEN 1 ELSE 0

oldest_terminal(reg) ==
    IF \E k \in 1..Len(reg) : reg[k].terminal
    THEN CHOOSE k \in 1..Len(reg) :
             reg[k].terminal /\ \A j \in 1..(k - 1) : ~reg[j].terminal
    ELSE 0

\* evict while the registry is over the bound and a terminal task is left
RECURSIVE evict(_)
evict(reg) ==
    IF Len(reg) > task_max_in_memory /\ oldest_terminal(reg) # 0
    THEN evict(Without(reg, oldest_terminal(reg)))
    ELSE reg

\* a submission registers a new task, whose files are on disk, and evicts
register_task ==
    /\ submitted < MaxSubmitted
    /\ submitted' = submitted + 1
    /\ registry' = evict(Append(registry, [id |-> submitted + 1, terminal |-> FALSE]))
    /\ on_disk' = on_disk \cup {submitted + 1}
    /\ UNCHANGED evict_rest

\* the worker of a task ends: the task is completed or failed
task_ends(k) ==
    /\ k \in 1..Len(registry)
    /\ ~registry[k].terminal
    /\ registry' = [registry EXCEPT ![k].terminal = TRUE]
    /\ UNCHANGED << on_disk, submitted >>
    /\ UNCHANGED evict_rest

NextEvict ==
    \/ register_task
    \/ \E k \in 1..(MaxSubmitted) : task_ends(k)

(* ---------------------------- files on disk ---------------------------- *)
\* services/persistence.py and the stages that write JSON themselves: the
\* files of one task directory (and uploads_dir/hash_index.json), written
\* through the system calls of a write, with the process stopping at any
\* point, and read by the read operations of PersistenceService.

\* the JSON files that save_meta, save_json and save_hash_index write
\* (transcript.json stands for the three result files of save_json)
AtomicFiles == {"meta.json", "transcript.json", "hash_index.json"}

\* the JSON files that OCRScanStage and FaceDetectStage write with
\* dest.write_text(json.dumps(...)) (KeyframeExtractStage writes
\* keyframes.json the same way)
DirectFiles == {"ocr_results.json", "visual_events.json"}

JsonFiles == AtomicFiles \cup DirectFiles

\* the file of tempfile.mkstemp(dir = dest.parent, suffix = ".tmp")
tmp_path == "tmp"

\* audio.<ext> and video.<ext> of save_audio / save_video
MediaFiles == {"audio", "video"}

Paths == JsonFiles \cup MediaFiles \cup {tmp_path}

\* what is at a path: "absent", "complete" (the whole document), or what a
\* write that did not finish leaves: "truncated", a prefix of the document
\* that is text (the empty file included), or "bad_utf8", a prefix that ends
\* inside a multi-byte character (the documents are UTF-8 with
\* ensure_ascii = False)
Partial == {"truncated", "bad_utf8"}

\* the variables of the other parts of the program
files_rest ==
    << vars, mm_vars, llm_vars, pipe_vars,
       fan_vars, timeout_vars, evict_vars, http_vars, audit_vars, corr_vars >>

NoAnswer == [op |-> "none", file |-> "none", content |-> "absent", out |-> "none"]

IdleIO == [pc |-> "idle", dest |-> "none"]

InitFiles ==
    /\ store = [p \in Paths |-> "absent"]
    /\ dir_made = FALSE
    /\ io = IdleIO
    /\ answer = NoAnswer

\* the path a write opens first: _atomic_write opens the temporary file,
\* Path.write_text opens the destination itself (mode "w": truncated)
opened(dest) == IF dest \in AtomicFiles THEN tmp_path ELSE dest

\* save_json / save_meta / save_hash_index / a stage's write_text starts:
\* task_dir makes the directory, the file is created empty or truncated
write_open(dest) ==
    /\ io.pc = "idle"
    /\ store' = [store EXCEPT ![opened(dest)] = "truncated"]
    /\ dir_made' = TRUE
    /\ io' = [pc |-> "open", dest |-> dest]
    /\ answer' = NoAnswer
    /\ UNCHANGED files_rest

\* a part of the content has reached the file
write_flush(part) ==
    /\ io.pc = "open"
    /\ store[opened(io.dest)] # part
    /\ store' = [store EXCEPT ![opened(io.dest)] = part]
    /\ UNCHANGED << dir_made, io, answer >>
    /\ UNCHANGED files_rest

\* the rest of the content is written and the file is closed; write_text
\* returns, _atomic_write goes on to the rename
write_close ==
    /\ io.pc = "open"
    /\ store' = [store EXCEPT ![opened(io.dest)] = "complete"]
    /\ io' = IF opened(io.dest) = io.dest THEN IdleIO
             ELSE [io EXCEPT !.pc = "closed"]
    /\ UNCHANGED << dir_made, answer >>
    /\ UNCHANGED files_rest

\* _atomic_write: Path(tmp_path).replace(dest)
replace ==
    /\ io.pc = "closed"
    /\ store' = [store EXCEPT ![io.dest] = store[tmp_path],
                              ![tmp_path] = "absent"]
    /\ io' = IdleIO
    /\ UNCHANGED << dir_made, answer >>
    /\ UNCHANGED files_rest

\* the write raises (disk full, ...): _atomic_write unlinks the temporary
\* file and raises again; write_text just raises
write_raises ==
    /\ io.pc \in {"open", "closed"}
    /\ store' = IF opened(io.dest) = tmp_path
                THEN [store EXCEPT ![tmp_path] = "absent"]
                ELSE store
    /\ io' = IdleIO
    /\ UNCHANGED << dir_made, answer >>
    /\ UNCHANGED files_rest

\* the process stops during a write and is started again: what is on disk
\* stays
stop ==
    /\ io.pc \in {"open", "closed"}
    /\ io' = IdleIO
    /\ UNCHANGED << store, dir_made, answer >>
    /\ UNCHANGED files_rest

\* save_audio / save_video
save_bytes(media) ==
    /\ io.pc = "idle"
    /\ store' = [store EXCEPT ![media] = "complete"]
    /\ dir_made' = TRUE
    /\ answer' = NoAnswer
    /\ UNCHANGED io
    /\ UNCHANGED files_rest

\* Path.read_text("utf-8") of a file that exists
read_text(c) == IF c = "bad_utf8" THEN "UnicodeDecodeError" ELSE "text"

\* json.loads of a text
json_loads(c) == IF c = "complete" THEN "value" ELSE "JSONDecodeError"

\* json.loads(path.read_text("utf-8")): the value or the exception raised
loads_read_text(c) ==
    IF read_text(c) = "text" THEN json_loads(c) ELSE read_text(c)

\* "except (json.JSONDecodeError, OSError)" of load_json / load_hash_index
except_clause == {"JSONDecodeError", "OSError"}

\* the outcome of a try block with that except clause and a fallback value
try(outcome, value, fallback) ==
    IF outcome = "value" THEN value
    ELSE IF outcome \in except_clause THEN fallback
    ELSE "raised"

\* PersistenceService.load_json
load_json(c) ==
    IF c = "absent" THEN "null" ELSE try(loads_read_text(c), "data", "null")

\* PersistenceService.load_hash_index, on the content of hash_index.json
load_index(c) ==
    IF c = "absent" THEN "{}" ELSE try(loads_read_text(c), "index", "{}")

\* Path.exists
exists(c) == IF c = "absent" THEN "false" ELSE "true"

\* PersistenceService.find_audio / find_video: None without the directory,
\* else the first audio.* / video.* file
find(dir, c) == IF dir /\ c # "absent" THEN "path" ELSE "None"

ReadOps == {"load_json", "load_hash_index", "has_file", "find_audio", "find_video"}

\* the files an operation can be asked for
Readable(op) ==
    IF op = "load_hash_index" THEN {"hash_index.json"}
    ELSE IF op = "find_audio" THEN {"audio"}
    ELSE IF op = "find_video" THEN {"video"}
    ELSE JsonFiles \ {"hash_index.json"}

\* one read operation is called and returns or raises; load_json goes
\* through task_dir, which makes the directory
read(op, file) ==
    /\ io.pc = "idle"
    /\ file \in Readable(op)
    /\ answer' = [op |-> op, file |-> file, content |-> store[file],
                  out |-> IF op = "load_json" THEN load_json(store[file])
                          ELSE IF op = "load_hash_index" THEN load_index(store[file])
                          ELSE IF op = "has_file" THEN exists(store[file])
                          ELSE find(dir_made, store[file])]
    /\ dir_made' = (dir_made \/ op = "load_json")
    /\ UNCHANGED << store, io >>
    /\ UNCHANGED files_rest

NextFiles ==
    \/ \E dest \in JsonFiles : write_open(dest)
    \/ \E part \in Partial : write_flush(part)
    \/ write_close
    \/ replace
    \/ write_raises
    \/ stop
    \/ \E media \in MediaFiles : save_bytes(media)
    \/ \E op \in ReadOps, file \in Paths : read(op, file)

(* ---------------------------- hotwords of a request -------------------- *)
\* utils/request.py parse_hotwords and the handlers of routers/transcription,
\* routers/evaluation and routers/task that take a hotwords form field: one
\* request is handled per step, up to the call that starts a pipeline run or
\* a task.

\* the values of the hotwords field: absent; ""; text that is not JSON; JSON
\* that is no array; an array with an element that is no string; a non-empty
\* array of strings; []
HotwordsValues ==
    {"none", "empty", "not_json", "object", "mixed", "strings", "empty_list"}

\* the values that are not a JSON array of strings
InvalidHotwords == {"not_json", "object", "mixed"}

\* the handlers with a hotwords field, by path
SyncEndpoints == {"transcribe", "transcribe/raw", "transcribe/transcript"}

\* the variables of the other parts of the program
http_rest ==
    << vars, mm_vars, llm_vars, pipe_vars,
       fan_vars, timeout_vars, evict_vars, files_vars, audit_vars, corr_vars >>

NoReply ==
    [ endpoint |-> "none", hotwords |-> "none", too_large |-> FALSE,
      known |-> FALSE, fails |-> FALSE, code |-> 0, started |-> FALSE ]

InitHttp == reply = NoReply

\* parse_hotwords: "None", "list", or the exception it raises
parse_hotwords(hotwords) ==
    IF hotwords \in {"none", "empty"} THEN "None"
    ELSE IF hotwords = "not_json" THEN "ValueError"
    ELSE IF hotwords \in {"object", "mixed"} THEN "ValueError"
    ELSE IF hotwords = "strings" THEN "list"
    ELSE "None"

\* an exception that no handler of the application catches (main.py
\* registers one for CopernicusError only): the server answers 500
unhandled == 500

\* what a handler answers: the status code, and whether it got as far as
\* starting a pipeline run or a task
Answered(endpoint, hotwords, too_large, known, fails, code, started) ==
    [ endpoint |-> endpoint, hotwords |-> hotwords, too_large |-> too_large,
      known |-> known, fails |-> fails, code |-> code, started |-> started ]

\* routers/transcription.py transcribe, transcribe_raw, transcribe_transcript
\* (fails: the pipeline raises a CopernicusError)
transcribe(endpoint, hotwords, too_large, fails) ==
    /\ reply' =
          IF too_large
          THEN Answered(endpoint, hotwords, too_large, FALSE, fails, 413, FALSE)
          ELSE IF parse_hotwords(hotwords) = "ValueError"
          THEN Answered(endpoint, hotwords, too_large, FALSE, fails, unhandled, FALSE)
          ELSE Answered(endpoint, hotwords, too_large, FALSE, fails,
                        IF fails THEN 500 ELSE 200, TRUE)
    /\ UNCHANGED http_rest

\* routers/evaluation.py evaluate_audio
evaluate_audio(hotwords, too_large, fails) ==
    /\ reply' =
          IF too_large
          THEN Answered("evaluate", hotwords, too_large, FALSE, fails, 413, FALSE)
          ELSE IF parse_hotwords(hotwords) = "ValueError"
          THEN Answered("evaluate", hotwords, too_large, FALSE, fails, unhandled, FALSE)
          ELSE Answered("evaluate", hotwords, too_large, FALSE, fails,
                        IF fails THEN 500 ELSE 200, TRUE)
    /\ UNCHANGED http_rest

\* routers/evaluation.py submit_evaluate_task
submit_evaluate_task(hotwords, too_large) ==
    /\ reply' =
          IF too_large
          THEN Answered("evaluate/async", hotwords, too_large, FALSE, FALSE, 413, FALSE)
          ELSE IF parse_hotwords(hotwords) = "ValueError"
          THEN Answered("evaluate/async", hotwords, too_large, FALSE, FALSE,
                        unhandled, FALSE)
          ELSE Answered("evaluate/async", hotwords, too_large, FALSE, FALSE, 202, TRUE)
    /\ UNCHANGED http_rest

\* routers/task.py submit_transcript_task (known: lookup_by_hash finds a
\* task for the upload; fails: a persistence write after the submission raises)
post_tasks_transcript(hotwords, too_large, known, fails) ==
    /\ reply' =
          IF too_large
          THEN Answered("tasks/transcript", hotwords, too_large, known, fails, 413, FALSE)
          ELSE IF known
          THEN Answered("tasks/transcript", hotwords, too_large, known, fails, 202, FALSE)
          ELSE IF parse_hotwords(hotwords) = "ValueError"
          THEN Answered("tasks/transcript", hotwords, too_large, known, fails, 422, FALSE)
          ELSE Answered("tasks/transcript", hotwords, too_large, known, fails,
                        IF fails THEN unhandled ELSE 202, TRUE)
    /\ UNCHANGED http_rest

\* routers/task.py rerun_transcript (known: the task id is registered or has
\* audio on disk)
post_rerun_transcript(hotwords, known) ==
    /\ reply' =
          IF parse_hotwords(hotwords) = "ValueError"
          THEN Answered("tasks/rerun-transcript", hotwords, FALSE, known, FALSE, 422, FALSE)
          ELSE IF ~known
          THEN Answered("tasks/rerun-transcript", hotwords, FALSE, known, FALSE, 404, FALSE)
          ELSE Answered("tasks/rerun-transcript", hotwords, FALSE, known, FALSE, 200, TRUE)
    /\ UNCHANGED http_rest

NextHttp ==
    \/ \E e \in SyncEndpoints, h \in HotwordsValues, l, f \in BOOLEAN :
           transcribe(e, h, l, f)
    \/ \E h \in HotwordsValues, l, f \in BOOLEAN : evaluate_audio(h, l, f)
    \/ \E h \in HotwordsValues, l \in BOOLEAN : submit_evaluate_task(h, l)
    \/ \E h \in HotwordsValues, l, k, f \in BOOLEAN :
           post_tasks_transcript(h, l, k, f)
    \/ \E h \in HotwordsValues, k \in BOOLEAN : post_rerun_transcript(h, k)

(* ---------------------------- violation filters ------------------------ *)
\* services/compliance_filters.py and the map and reduce steps of
\* ComplianceService.audit around them.  A violation is its position in the
\* map output (id), rule_id, timestamp_ms and confidence (in tenths).
MaxViolations == 3           \* violations the map step reports
MaxStamp == 2                \* timestamp_ms is in 0..MaxStamp
window_ms == 2               \* DeduplicationFilter window (the setting is 30000)
confidence_threshold == 7    \* ConfidenceFilter threshold 0.7, in tenths

Confidences == {5, 7, 9}

\* the lists of violations _parse_violations can hand to audit
Violations ==
    UNION { [ 1..n -> [ rule_id : {1, 2}, timestamp_ms : 0..MaxStamp,
                        confidence : Confidences ] ] : n \in 0..MaxViolations }

\* all_violations: each violation with its position as identity
Numbered(vs) ==
    [ i \in DOMAIN vs |->
        [ id |-> i, rule_id |-> vs[i].rule_id,
          timestamp_ms |-> vs[i].timestamp_ms, confidence |-> vs[i].confidence ] ]

\* the variables of the other parts of the program
audit_rest ==
    << vars, mm_vars, llm_vars, pipe_vars,
       fan_vars, timeout_vars, evict_vars, files_vars, http_vars, corr_vars >>

InitAudit ==
    /\ all_violations = << >>
    /\ audit_report = << >>
    /\ audit_pc = "idle"

\* the sort key: v.timestamp_ms, or (v.rule_id, v.timestamp_ms)
key(v, by_rule) ==
    IF by_rule THEN v.rule_id * (MaxStamp + 1) + v.timestamp_ms
    ELSE v.timestamp_ms

\* sorted(vs, key = ...) / list.sort(key = ...): stable
RECURSIVE sorted(_, _)
sorted(vs, by_rule) ==
    IF vs = << >> THEN << >>
    ELSE LET v == vs[Len(vs)]
             rest == sorted(SubSeq(vs, 1, Len(vs) - 1), by_rule)
             p == Cardinality({ i \in DOMAIN rest :
                                  key(rest[i], by_rule) <= key(v, by_rule) })
         IN  SubSeq(rest, 1, p) \o << v >> \o SubSeq(rest, p + 1, Len(rest))

\* ConfidenceFilter.apply
ConfidenceFilter(vs) ==
    SelectSeq(vs, LAMBDA v : v.confidence >= confidence_threshold)

\* DeduplicationFilter.apply, the loop over sorted_vs from position i on
\* (prev: << >> for None)
RECURSIVE dedup_loop(_, _, _, _)
dedup_loop(sorted_vs, i, result, prev) ==
    IF i > Len(sorted_vs) THEN result
    ELSE LET v == sorted_vs[i]
         IN  IF /\ prev # << >>
                /\ prev[1].rule_id = v.rule_id
                /\ v.timestamp_ms - prev[1].timestamp_ms < window_ms
                /\ prev[1].timestamp_ms - v.timestamp_ms < window_ms
             THEN dedup_loop(sorted_vs, i + 1,
                      IF v.confidence > prev[1].confidence
                      THEN [result EXCEPT ![Len(result)] = v] ELSE result,
                      prev)
             ELSE dedup_loop(sorted_vs, i + 1, Append(result, v), << v >>)

\* DeduplicationFilter.apply
DeduplicationFilter(vs) == dedup_loop(sorted(vs, TRUE), 1, << >>, << >>)

\* run_filters for an audit without exact-mode rules and without OCR
\* results (ExactMatchValidator and EvidenceEnricher return the list as it
\* is), ending with result.sort(key = timestamp_ms)
run_filters(vs) == sorted(DeduplicationFilter(ConfidenceFilter(vs)), FALSE)

\* the step of audit between map and reduce
filter_chain_skipped(vs) == vs

filter_chain(vs) == run_filters(vs)

\* audit, map: the chunk results are gathered into all_violations
audit_map(vs) ==
    /\ audit_pc = "idle"
    /\ all_violations' = Numbered(vs)
    /\ audit_report' = << >>
    /\ audit_pc' = "mapped"
    /\ UNCHANGED audit_rest

\* audit: the filter chain, the sort by timestamp_ms, the summary and the
\* report
audit_reduce ==
    /\ audit_pc = "mapped"
    /\ audit_report' = sorted(filter_chain(all_violations), FALSE)
    /\ audit_pc' = "returned"
    /\ UNCHANGED all_violations
    /\ UNCHANGED audit_rest

\* DeduplicationFilter(window_ms).apply called on a list of violations
dedup_apply ==
    /\ audit_pc = "mapped"
    /\ audit_report' = DeduplicationFilter(all_violations)
    /\ audit_pc' = "deduped"
    /\ UNCHANGED all_violations
    /\ UNCHANGED audit_rest

\* the caller has the result
audit_done ==
    /\ audit_pc \in {"returned", "deduped"}
    /\ all_violations' = << >>
    /\ audit_report' = << >>
    /\ audit_pc' = "idle"
    /\ UNCHANGED audit_rest

NextAudit ==
    \/ \E vs \in Violations : audit_map(vs)
    \/ audit_reduce
    \/ dedup_apply
    \/ audit_done

(* ---------------------------- transcript correction -------------------- *)
\* CorrectorService.correct_transcript (services/corrector.py): phase 1
\* filters noise, phases 2 and 3 rewrite each text in place, phase 4 sends
\* the entries to the LLM in batches and merges the answers.
MaxEntries == 3      \* entries in one call; ids are drawn from 1..MaxEntries
max_entries == 2     \* batch_size (15 in the code)
max_chars == 3       \* chunk_size: the character limit of one batch

EntryIds == 1..MaxEntries

\* an entry as phases 1 to 3 leave it: noise (preprocess_text gave None),
\* or a text of chars characters
Entry == { e \in [ id : EntryIds, noise : BOOLEAN, chars : 1..(max_chars + 1) ] :
             e.noise => e.chars = 1 }

\* the calls: entries with ids in ascending order, as TextCorrectionStage
\* builds them from the segments that need correction
Entries ==
    { es \in UNION { [ 1..n -> Entry ] : n \in 0..MaxEntries } :
        \A i, j \in DOMAIN es : i < j => es[i].id < es[j].id }

\* the texts of the result: the text sent for id n, the text the LLM
\* answered to batch n, the empty string
sent_text(id) == [from |-> "sent", n |-> id]
llm_text(b) == [from |-> "llm", n |-> b]
empty_text == [from |-> "empty", n |-> 0]

\* the variables of the other parts of the program
corr_rest ==
    << vars, mm_vars, llm_vars, pipe_vars,
       fan_vars, timeout_vars, evict_vars, files_vars, http_vars, audit_vars >>

InitCorrect ==
    /\ corr_entries = << >>
    /\ batches = << >>
    /\ batch_results = << >>
    /\ merged = << >>
    /\ corr_pc = "idle"

RECURSIVE sum_chars(_)
sum_chars(batch) ==
    IF batch = << >> THEN 0 ELSE batch[1].chars + sum_chars(Tail(batch))

would_exceed_entries_late(current_batch, limit) == Len(current_batch) > limit

would_exceed_entries(current_batch, limit) == Len(current_batch) >= limit

\* _create_transcript_batches, the loop from entry i on
RECURSIVE batches_loop(_, _, _, _)
batches_loop(es, i, done, current_batch) ==
    IF i > Len(es)
    THEN IF current_batch # << >> THEN Append(done, current_batch) ELSE done
    ELSE LET entry == es[i]
             current_chars == sum_chars(current_batch)
         IN  IF entry.chars > max_chars
             THEN batches_loop(es, i + 1,
                      (IF current_batch # << >> THEN Append(done, current_batch)
                       ELSE done) \o << << entry >> >>,
                      << >>)
             ELSE IF /\ current_batch # << >>
                     /\ \/ would_exceed_entries(current_batch, max_entries)
                        \/ current_chars + entry.chars > max_chars
                  THEN batches_loop(es, i + 1, Append(done, current_batch), << entry >>)
                  ELSE batches_loop(es, i + 1, done, Append(current_batch, entry))

create_transcript_batches(es) == batches_loop(es, 1, << >>, << >>)

\* phase 1: the entries that are not noise, and the ids of those that are
preprocessed_entries(es) == SelectSeq(es, LAMBDA e : ~e.noise)
filtered_ids(es) == { es[i].id : i \in { j \in DOMAIN es : es[j].noise } }

ids_of(es) == { es[i].id : i \in DOMAIN es }

\* dict.update
update(m, other) ==
    [ k \in DOMAIN m \cup DOMAIN other |->
        IF k \in DOMAIN other THEN other[k] ELSE m[k] ]

RECURSIVE merge(_, _)
merge(results, i) ==
    IF i = 0 THEN << >> ELSE update(merge(results, i - 1), results[i])

\* correct_transcript up to the LLM calls
correct_transcript(es) ==
    /\ corr_pc = "idle"
    /\ es # << >>
    /\ corr_entries' = es
    /\ batch_results' = << >>
    /\ IF preprocessed_entries(es) = << >>
       THEN /\ merged' = [ k \in ids_of(es) |-> empty_text ]
            /\ batches' = << >>
            /\ corr_pc' = "returned"
       ELSE /\ merged' = << >>
            /\ batches' = create_transcript_batches(preprocessed_entries(es))
            /\ corr_pc' = "llm"
    /\ UNCHANGED corr_rest

\* _correct_transcript_batch of the next batch (gather keeps batch order):
\* the answer has an entry for the ids in answered; an empty or unreadable
\* answer and a failed call give the fallback, as answered = {} does
correct_transcript_batch(answered) ==
    /\ corr_pc = "llm"
    /\ Len(batch_results) < Len(batches)
    /\ LET b == Len(batch_results) + 1
           fallback == [ k \in ids_of(batches[b]) |-> sent_text(k) ]
           result == update(fallback, [ k \in answered |-> llm_text(b) ])
       IN  batch_results' = Append(batch_results, result)
    /\ UNCHANGED << corr_entries, batches, merged, corr_pc >>
    /\ UNCHANGED corr_rest

\* correct_transcript after gather: merge and the noise entries
correct_transcript_return ==
    /\ corr_pc = "llm"
    /\ Len(batch_results) = Len(batches)
    /\ merged' = update(merge(batch_results, Len(batch_results)),
                        [ k \in filtered_ids(corr_entries) |-> empty_text ])
    /\ corr_pc' = "returned"
    /\ UNCHANGED << corr_entries, batches, batch_results >>
    /\ UNCHANGED corr_rest

\* the caller has the map
correct_transcript_done ==
    /\ corr_pc = "returned"
    /\ corr_entries' = << >>
    /\ batches' = << >>
    /\ batch_results' = << >>
    /\ merged' = << >>
    /\ corr_pc' = "idle"
    /\ UNCHANGED corr_rest

NextCorrect ==
    \/ \E es \in Entries : correct_transcript(es)
    \/ \E answered \in SUBSET EntryIds : correct_transcript_batch(answered)
    \/ correct_transcript_return
    \/ correct_transcript_done

(* ---------------------------- specification ---------------------------- *)
Faults == {"none", "media", "meta"}

Next ==
    \/ restore_from_disk
    \/ Restart
    \/ \E h \in Hashes, hw \in Contents, video \in BOOLEAN, fault \in Faults :
           submit_transcript_task(h, hw, video, fault)
    \/ \E hw \in Contents : submit_evaluation(hw)
    \/ \E text \in Contents, parent \in {None} \cup Ids :
           submit_text_evaluation(text, parent)
    \/ \E entries \in Contents, parent \in {None} \cup Ids :
           submit_compliance_audit(entries, parent)
    \/ \E id \in Ids, hw \in Contents : rerun_transcript(id, hw)
    \/ \E total \in 1..MaxChunks, rules_ok \in BOOLEAN, msg \in Messages :
           WorkerStart(total, rules_ok, msg)
    \/ \E w \in 1..MaxWorkers, total \in 1..MaxChunks : WorkerProgress(w, total)
    \/ \E w \in 1..MaxWorkers, total \in 1..MaxChunks : WorkerEvaluate(w, total)
    \/ \E w \in 1..MaxWorkers, save_ok \in BOOLEAN, msg \in Messages :
           WorkerFinish(w, save_ok, msg)
    \/ \E w \in 1..MaxWorkers, msg \in Messages : WorkerFail(w, msg)

\* the process after construction: the task store and every service
InitAll ==
    Init /\ InitMM /\ InitLLM /\ InitPipe /\ InitFan /\ InitTimeout /\ InitEvict
    /\ InitFiles
    /\ InitHttp
    /\ InitAudit
    /\ InitCorrect

\* the task store, with the three services at rest
Spec == InitAll /\ [][Next]_vars

\* the task store with every worker run under the timeout wrapper
NextGuarded ==
    \/ Next
    \/ \E w \in 1..MaxWorkers : WorkerTimeout(w)

SpecGuarded == InitAll /\ [][NextGuarded]_vars

\* the ModelManager, the OllamaClient and the transcript pipeline, each on
\* its own
SpecMM == InitAll /\ [][NextMM]_mm_vars

SpecLLM == InitAll /\ [][NextLLM]_llm_vars

SpecPipe == InitAll /\ [][NextPipe]_pipe_vars

\* one correct_transcript / audit call on its own
SpecFan == InitAll /\ [][NextFan]_fan_vars

\* the timeout wrapper in time
SpecTimeout == InitAll /\ [][NextTimeout]_timeout_vars

\* the eviction of the task registry on its own
SpecEvict == InitAll /\ [][NextEvict]_evict_vars

\* the files on disk under writes, stops and reads
SpecFiles == InitAll /\ [][NextFiles]_files_vars

\* the handlers that take a hotwords field
SpecHttp == InitAll /\ [][NextHttp]_http_vars

\* the violation filters and the audit around them
SpecAudit == InitAll /\ [][NextAudit]_audit_vars

\* the four-phase transcript correction
SpecCorrect == InitAll /\ [][NextCorrect]_corr_vars

(* ---------------------------- properties ------------------------------- *)
\* the tasks that are in the registry before and after a step
Both == DOMAIN tasks \cap DOMAIN tasks'

\* the step is rerun_transcript(i) accepted for a known task with audio
RerunStep(i) == response' = Response("rerun_transcript", i, FALSE, 200)

\* the step is no handler and a worker coroutine of task i is alive
WorkerStepOf(i) == response' = NoResponse /\ ActiveWorkers(i) # {}

\* the step is a transcript submission of content h (its index entry names the
\* id that is answered)
SubmittedHash(h) ==
    /\ response'.op = "submit_transcript"
    /\ hash_index'[h] = response'.id

\* the step is restore_from_disk
RestoreStep == phase = "starting" /\ phase' = "serving"

\* C1 as stated: once a task is completed or failed, no step changes its status
C1_TerminalIsFinal ==
    [][\A i \in Both :
          Terminal(tasks[i].status) => tasks'[i].status = tasks[i].status]_vars

\* C1 amended: the status of a completed or failed task changes only by
\* rerun_transcript on that id, which makes it pending, or by a step of a
\* worker of that id that is still alive; no other handler, no other task's
\* worker and not restore_from_disk changes it
C1_TerminalChangesOnlyByRerun ==
    [][\A i \in Both :
          Terminal(tasks[i].status) /\ tasks'[i].status # tasks[i].status
              => \/ RerunStep(i) /\ tasks'[i].status = "pending"
                 \/ WorkerStepOf(i)]_vars

\* C1 witness: a task that was completed has been rerun and is pending again
C1_Witness ==
    \E i \in DOMAIN tasks :
        /\ response = Response("rerun_transcript", i, FALSE, 200)
        /\ tasks[i].status = "pending"
        /\ disk[i].transcript # Absent
        /\ Cardinality(ActiveWorkers(i)) = 1

\* C2: a task that is not terminal only moves to a later status of the
\* declared order, or to failed
C2_StatusOnlyAdvances ==
    [][\A i \in Both :
          ~Terminal(tasks[i].status) /\ tasks'[i].status # tasks[i].status
              => \/ tasks'[i].status = "failed"
                 \/ StatusRank(tasks'[i].status) > StatusRank(tasks[i].status)]_vars

C4_ErrorIffFailed ==
    \A i \in DOMAIN tasks :
        (tasks[i].error # NoError) <=> (tasks[i].status = "failed")

\* C5: no task id has two worker coroutines alive
C5_OneWorkerPerTask ==
    \A i \in Ids : Cardinality(ActiveWorkers(i)) <= 1

\* C6: between two observations of a task that is not terminal, the percent
\* of progress does not go down
C6_PercentNonDecreasing ==
    [][\A i \in Both :
          ~Terminal(tasks[i].status) /\ ~Terminal(tasks'[i].status)
              => progress(tasks'[i]) >= progress(tasks[i])]_vars

C9_RestoresEveryTranscript ==
    [][RestoreStep =>
          \A i \in Ids :
              disk[i].dir /\ disk[i].transcript # Absent
                  => /\ i \in DOMAIN tasks'
                     /\ tasks'[i].status = "completed"
                     /\ tasks'[i].result = disk[i].transcript]_vars

\* C9 amended: it does so for the task directories that hold meta.json and
\* transcript.json
C9_RestoresTranscriptWithMeta ==
    [][RestoreStep =>
          \A i \in Ids :
              disk[i].dir /\ disk[i].meta /\ disk[i].transcript # Absent
                  => /\ i \in DOMAIN tasks'
                     /\ tasks'[i].status = "completed"
                     /\ tasks'[i].result = disk[i].transcript]_vars

\* C9 witness: restore_from_disk has returned and a task of an earlier
\* process life is back, completed, with its transcript
C9_Witness ==
    /\ response.op = "restore"
    /\ \E i \in DOMAIN tasks :
           /\ disk[i].meta
           /\ tasks[i].status = "completed"
           /\ tasks[i].result = disk[i].transcript

\* C10: restore_from_disk leaves a task that has its media file but no
\* transcript.json out of the registry and starts no worker
C10_InterruptedNotResumed ==
    [][RestoreStep =>
          /\ \A i \in Ids :
                 disk[i].media # "none" /\ disk[i].transcript = Absent
                     => i \notin DOMAIN tasks'
          /\ workers' = << >>]_vars

\* C10 witness: after a restart a task with media and meta.json on disk, and
\* no transcript.json, is not in the registry
C10_Witness ==
    /\ response.op = "restore"
    /\ \E i \in Ids :
           /\ disk[i].media # "none"
           /\ disk[i].meta
           /\ disk[i].transcript = Absent
           /\ i \notin DOMAIN tasks

\* C11: while a caller is inside an acquire(T) scope, the model of type T is
\* in the set of loaded models
C11_ModelStaysResident ==
    \A c \in Callers :
        mm_callers[c].pc = "in_scope" => mm_callers[c].type \in mm_loaded

\* C12: the set of loaded models never holds two model types
C12_AtMostOneLoaded == Cardinality(mm_loaded) <= 1

\* C12 witness: two callers are inside acquire scopes of different model
\* types and one model type is loaded
C12_Witness ==
    \E c, d \in Callers :
        /\ mm_callers[c].pc = "in_scope"
        /\ mm_callers[d].pc = "in_scope"
        /\ mm_callers[c].type # mm_callers[d].type
        /\ Cardinality(mm_loaded) = 1

\* C13: the chat requests in flight never exceed max_concurrent
C13_InFlightBounded == Cardinality(InFlight) <= llm_max_concurrent

\* C13 witness: max_concurrent requests are in flight and one more chat is
\* waiting at the semaphore
C13_Witness ==
    /\ Cardinality(InFlight) = llm_max_concurrent
    /\ \E c \in Chats : chats[c].pc = "waiting"

\* C14: an attempt that fails with a network error or a 5xx response is
\* followed, after a wait of retry_delay * 2^(k-1) before retry k, by another
\* attempt, until 1 + max_retries attempts were made; then the call raises
C14_RetriesNetworkAnd5xx ==
    [][\A c \in Chats, e \in NetworkOr5xx :
          chat_except(c, e) =>
              IF chats[c].attempt < 1 + llm_max_retries
              THEN /\ chats'[c].pc = "sleeping"
                   /\ chats'[c].delays = Append(chats[c].delays,
                          llm_retry_delay * (2 ^ (chats[c].attempt - 1)))
              ELSE chats'[c].pc = "raised"]_llm_vars

\* C15: no attempt follows a 4xx response; only a network error or a 5xx
\* response leads to the wait before another attempt
C15_No4xxRetry ==
    [][\A c \in Chats :
          chats[c].pc = "streaming" /\ chats'[c].pc = "sleeping"
              => chats'[c].error \in NetworkOr5xx]_llm_vars

\* C16: chat returns exactly the content of the stream of the attempt that
\* was read to its end, and a call that has not returned has no content
C16_NoPartialContent ==
    \A c \in Chats :
        IF chats[c].pc = "returned"
        THEN chats[c].result = Stream(chats[c].attempt)
        ELSE chats[c].result = << >>

\* C16 witness: a call has returned after an earlier attempt of it failed
\* with content lines already read
C16_Witness ==
    \E c \in Chats :
        /\ chats[c].pc = "returned"
        /\ chats[c].partial
        /\ chats[c].attempt > 1
        /\ chats[c].result # << >>

\* the runs inside the ASR engine's transcribe call
Transcribing == {r \in Runs : runs[r].pc = "transcribing"}

\* C17: in every run the stages start in registration order, each at most
\* once, only if should_run held when the loop reached them, and only after
\* the stage started before has returned
C17_StagesInOrderOnceNoOverlap ==
    \A r \in Runs :
        LET st == runs[r].started
            rt == runs[r].returned
        IN  /\ \A k \in 1..Len(st) : st[k].should
            /\ \A k \in 1..(Len(st) - 1) : st[k].stage < st[k + 1].stage
            /\ Len(rt) <= Len(st) /\ Len(st) <= Len(rt) + 1
            /\ \A k \in 1..Len(rt) : rt[k] = st[k].stage
            /\ runs[r].pc = "between" => Len(st) = Len(rt)

\* C17 witness: a run of an audio file is over: five stages were executed
\* and returned, the four video stages were skipped
C17_Witness ==
    \E r \in Runs :
        /\ runs[r].pc = "done"
        /\ runs[r].status = "completed"
        /\ Len(runs[r].returned) = 5
        /\ runs[r].returned[1] = 2

\* C18: at most one run is inside the ASR engine's transcribe call
C18_OneTranscribeAtATime == Cardinality(Transcribing) <= 1

\* C18 witness: one run is transcribing while another waits for the lock
C18_Witness ==
    \E r, q \in Runs :
        /\ runs[r].pc = "transcribing"
        /\ runs[q].pc = "asr_wait"

\* C19 as stated: a run in which a stage raises ends failed with the error
\* stored and without transcript.json, and the raise leaves every file that
\* the earlier stages wrote on disk
C19_StageErrorKeepsEveryFile ==
    [][\A r \in Runs :
          (runs[r].pc \in {"executing", "transcribing"} /\ runs'[r].pc = "done")
              => /\ runs'[r].status = "failed"
                 /\ runs'[r].error \in Messages
                 /\ "transcript.json" \notin runs'[r].files
                 /\ runs'[r].files = runs[r].files]_pipe_vars

\* C19 amended: the run ends failed with the error stored; the raise and
\* every later step write no artifact (at most the output file of a failed
\* ffmpeg run of the raising stage is left); the files of the task directory
\* stay as the earlier stages wrote them, and a raise of the ASR stage
\* removes the processed WAV of the audio_preprocess stage
C19_StageErrorFailsTask ==
    [][\A r \in Runs :
          /\ (runs[r].pc \in {"executing", "transcribing"} /\ runs'[r].pc = "done")
                => /\ runs'[r].status = "failed"
                   /\ runs'[r].error \in Messages
                   /\ "transcript.json" \notin runs'[r].files
                   /\ runs[r].files \ Temporary \subseteq runs'[r].files
                   /\ runs'[r].files \subseteq
                          runs[r].files \cup output_path(Stages[runs[r].stage])
                   /\ runs[r].pc = "transcribing"
                          => runs'[r].files = runs[r].files \ {"processed.wav"}
          /\ (runs[r].pc = "done" /\ runs[r].status = "failed")
                => runs'[r] = runs[r]]_pipe_vars

\* C19 witness: a stage of a video run raised after earlier stages had
\* written their files: the run is failed and the files are there
C19_Witness ==
    \E r \in Runs :
        /\ runs[r].pc = "done"
        /\ runs[r].status = "failed"
        /\ runs[r].error \in Messages
        /\ Len(runs[r].started) = Len(runs[r].returned) + 1
        /\ runs[r].files = {"extracted.wav", "keyframes.json"}

\* C20: when save_json raises at the end of a worker, the task becomes
\* failed, its error is set, and its result stays what the worker computed
C20_SaveFailureKeepsResult ==
    [][\A w \in 1..MaxWorkers, msg \in Messages :
          WorkerFinish(w, FALSE, msg) =>
              LET id == workers[w].tid
              IN  /\ tasks'[id].status = "failed"
                  /\ tasks'[id].error = ErrorText(workers[w].kind, msg)
                  /\ tasks'[id].result = workers[w].src
                  /\ tasks'[id].result # Absent]_vars

\* C20 witness: the worker of a task is gone, transcript.json was not
\* written, and the task is failed with its result and its error set
C20_Witness ==
    \E i \in DOMAIN tasks :
        /\ tasks[i].status = "failed"
        /\ tasks[i].result # Absent
        /\ tasks[i].error # NoError
        /\ ActiveWorkers(i) = {}
        /\ disk[i].transcript = Absent
        /\ disk[i].media = "audio"

\* the tasks that are not terminal and have no worker
Orphans == {i \in DOMAIN tasks : ~Terminal(tasks[i].status) /\ ActiveWorkers(i) = {}}

\* a step in which worker w leaves its coroutine
WorkerEnds(w) ==
    /\ phase = "serving" /\ phase' = "serving"
    /\ w \in DOMAIN workers
    /\ workers' = Ended(w)

C23_RerunResetsAndRestarts ==
    [][\A i \in Ids :
          RerunStep(i) =>
              /\ i \in DOMAIN tasks /\ find_audio(disk, i) = "audio"
              /\ DOMAIN tasks' = DOMAIN tasks
              /\ tasks'[i] = [tasks[i] EXCEPT !.status = "pending",
                     !.current_chunk = 0, !.total_chunks = 0,
                     !.result = Absent, !.error = NoError]
              /\ \A j \in DOMAIN tasks \ {i} : tasks'[j] = tasks[j]
              /\ disk' = [disk EXCEPT ![i].evaluation = Absent,
                                      ![i].compliance = Absent]
              /\ Len(workers') = Len(workers) + 1
              /\ \A w \in DOMAIN workers : workers'[w] = workers[w]
              /\ LET new == workers'[Len(workers')]
                 IN  /\ new.tid = i
                     /\ new.kind = "transcript"
                     /\ new.pc = "created"]_vars

\* C23 witness: rerun_transcript has just returned for a task whose
\* evaluation, run by a completed child task, had written evaluation.json:
\* the task is pending, the file is gone, the new worker has not run yet
C23_Witness ==
    \E i \in DOMAIN tasks :
        /\ response = Response("rerun_transcript", i, FALSE, 200)
        /\ tasks[i].status = "pending"
        /\ disk[i].evaluation = Absent
        /\ disk[i].transcript # Absent
        /\ \E j \in DOMAIN tasks :
               /\ tasks[j].parent_task_id = i
               /\ tasks[j].status = "completed"
        /\ \E w \in DOMAIN workers : workers[w].tid = i /\ workers[w].pc = "created"

IdsOf(reg) == {reg[k].id : k \in 1..Len(reg)}

C26_CountersOrdered ==
    \A i \in DOMAIN tasks :
        /\ 0 <= tasks[i].current_chunk
        /\ tasks[i].current_chunk <= tasks[i].total_chunks

\* C26 witness: one batch of a correction of two has reported while another
\* task is part-way through its audit or evaluation chunks
C26_Witness ==
    \E i, j \in DOMAIN tasks :
        /\ i # j
        /\ tasks[i].status = "correcting"
        /\ tasks[i].current_chunk = 1 /\ tasks[i].total_chunks = 2
        /\ tasks[j].status \in {"auditing", "evaluating"}
        /\ tasks[j].current_chunk = 1 /\ tasks[j].total_chunks > 1

\* C27: when a transcript run is over, completed or failed, no temporary
\* file of audio preprocessing (the copy of the upload, the converted WAV)
\* is left
C27_TempFilesDeleted ==
    \A r \in Runs :
        runs[r].pc = "done" => runs[r].files \cap Temporary = {}

\* the stages of a run that have been started / have returned, by name
started_stages(run) == { Stages[run.started[k].stage] : k \in DOMAIN run.started }
returned_stages(run) == { Stages[run.returned[k]] : k \in DOMAIN run.returned }

\* C35: in a run for a video, once VideoPreprocess has returned (it has set
\* wav_path to the extracted WAV) AudioPreprocess is not started, so ASR is
\* started on the extracted WAV
C35_VideoSkipsAudioPreprocess ==
    \A r \in Runs :
        (runs[r].ctx.video /\ "video_preprocess" \in returned_stages(runs[r]))
            => "audio_preprocess" \notin started_stages(runs[r])

\* C36: when a transcript submission is answered existing = true (status
\* completed) for an id, get(id) is a task of the registry whose status is
\* completed
C36_ExistingAnswerIsCompletedTask ==
    (response.op = "submit_transcript" /\ response.existing)
        => /\ response.id \in DOMAIN tasks
           /\ tasks[response.id].status = "completed"

\* C37: while a task that has a transcript on disk is being run again (it
\* is not completed: the transcript of the latest run is not written yet),
\* its directory holds no evaluation.json and no compliance.json: the ones
\* rerun_transcript deleted are not written again from an older transcript
C37_NoStaleDownstreamResult ==
    \A p \in DOMAIN tasks :
        (tasks[p].status # "completed" /\ disk[p].transcript # Absent)
            => /\ disk[p].evaluation = Absent
               /\ disk[p].compliance = Absent

\* C38: a read operation (load_json, load_hash_index, has_file, find_audio,
\* find_video) creates, changes and removes no file and no directory of
\* the uploads directory
C38_ReadsChangeNothing ==
    [][(answer'.op \in ReadOps /\ io' = io /\ io.pc = "idle" /\ store' = store)
           => dir_made' = dir_made]_files_vars

\* C28: every persisted JSON artifact is, at its final path, absent or a
\* complete document, whenever the process may stop
C28_JsonAbsentOrComplete ==
    \A f \in JsonFiles : store[f] \in {"absent", "complete"}

\* C29: no read operation raises, and load_json returns null for a file
\* that is missing or whose content is not a complete document
C29_ReadsNeverRaise ==
    /\ answer.out # "raised"
    /\ (answer.op = "load_json" /\ answer.content # "complete")
           => answer.out = "null"

\* C30: on every endpoint with a hotwords field, a request (within the size
\* limit) whose hotwords are not a JSON array of strings is answered 422 and
\* starts no pipeline run and no task
C30_InvalidHotwords422 ==
    (reply.hotwords \in InvalidHotwords /\ ~reply.too_large)
        => (reply.code = 422 /\ ~reply.started)

Collapsed(s, i, j) ==
    /\ s[i].rule_id = s[j].rule_id
    /\ \A k \in i..(j - 1) : s[k + 1].timestamp_ms - s[k].timestamp_ms < window_ms

Survives(v) == \E k \in DOMAIN audit_report : audit_report[k].id = v.id

\* C32: in the output of DeduplicationFilter no two neighbours of the sorted
\* input with the same rule_id and less than window_ms apart both survive,
\* and a survivor has the highest confidence of its group
C32_DedupCollapsesNeighbours ==
    audit_pc = "deduped" =>
        LET s == sorted(all_violations, TRUE)
        IN  /\ \A i \in 1..(Len(s) - 1) :
                   Collapsed(s, i, i + 1) => ~(Survives(s[i]) /\ Survives(s[i + 1]))
            /\ \A i, j \in DOMAIN s :
                   (i <= j /\ Collapsed(s, i, j))
                       => /\ Survives(s[i]) => s[i].confidence >= s[j].confidence
                          /\ Survives(s[j]) => s[j].confidence >= s[i].confidence

\* the batch an id was sent in (0: in none)
batch_of(id) ==
    IF \E b \in DOMAIN batches : id \in ids_of(batches[b])
    THEN CHOOSE b \in DOMAIN batches : id \in ids_of(batches[b])
    ELSE 0

\* C33: the map correct_transcript returns has a text for every input id,
\* the empty string for a noise entry, and the text sent for an id that the
\* answer to its batch left out
C33_TextForEveryId ==
    corr_pc = "returned" =>
        /\ ids_of(corr_entries) \subseteq DOMAIN merged
        /\ \A id \in filtered_ids(corr_entries) : merged[id] = empty_text
        /\ \A id \in ids_of(preprocessed_entries(corr_entries)) :
               batch_results[batch_of(id)][id] = sent_text(id)
                   => merged[id] = sent_text(id)

RECURSIVE flatten(_)
flatten(bs) == IF bs = << >> THEN << >> ELSE bs[1] \o flatten(Tail(bs))

\* C34: the batches are the phase-4 entries in input order, none empty, each
\* of at most max_entries entries and at most max_chars characters unless it
\* is a single entry longer than max_chars
C34_BatchesWithinLimits ==
    corr_pc = "llm" =>
        /\ flatten(batches) = preprocessed_entries(corr_entries)
        /\ \A b \in DOMAIN batches :
               /\ batches[b] # << >>
               /\ Len(batches[b]) <= max_entries
               /\ \/ sum_chars(batches[b]) <= max_chars
                  \/ Len(batches[b]) = 1 /\ batches[b][1].chars > max_chars

\* C34 witness: a full batch, a batch closed by the character limit and an
\* entry longer than max_chars, in one call
C34_Witness ==
    /\ corr_pc = "llm"
    /\ \E b \in DOMAIN batches : sum_chars(batches[b]) > max_chars
    /\ \E b \in DOMAIN batches : Len(batches[b]) = max_entries
    /\ Len(batches) >= 2

\* C39: in the returned map the text of an input id is the text sent, the
\* answer to its own batch or (noise) the empty string, and the map has no
\* id that was not in the input
C39_OnlyOwnBatchAnswer ==
    corr_pc = "returned" =>
        /\ DOMAIN merged \subseteq ids_of(corr_entries)
        /\ \A id \in DOMAIN merged \cap ids_of(corr_entries) :
               merged[id] \in {sent_text(id), llm_text(batch_of(id)), empty_text}

====
